---- MODULE Spec2Model ----
(***************************************************************************)
(* A model of the fiscal-calendar value objects of advisor360-backend:     *)
(* FinancialYear (app/domain/value_objects/financial_year.py), Money       *)
(* (app/domain/value_objects/money.py) and the Commission / Transaction    *)
(* entities (app/domain/commission.py, app/domain/transaction.py).         *)
(*                                                                         *)
(* Strings are sequences of one-character strings, dates are records       *)
(* [year, month, day], a Decimal is [coef, exp] (value coef * 10^exp).     *)
(* A call's outcome is a record whose kind is "raise" when the call raised *)
(* and names what it returned otherwise.                                   *)
(***************************************************************************)
EXTENDS Integers, Sequences, FiniteSets, TLC

VARIABLES
    fyPend,     \* the FinancialYear constructor call the caller is about to make
    fyOp,       \* the FinancialYear operation executed last
    argStr,     \* its string argument
    argDate,    \* its date argument
    argYear,    \* its integer argument
    argFmt,     \* its format_type argument
    fy,         \* the FinancialYear object the caller holds (NoFY: none)
    fyRet,      \* the outcome of the operation executed last
    mSelf,      \* the Money object the caller holds (NoMoney: none)
    mOther,     \* a second Money object, the argument of add and subtract
    mOp,        \* the Money operation whose outcome is pending ("none": idle)
    mArgAmount, \* the amount argument of a constructor
    mArgCur,    \* the currency argument of a constructor
    mFactor,    \* the factor or divisor argument of multiply and divide
    mRet,       \* the outcome of the pending operation
    now,        \* the system clock, in ticks
    ent,        \* the Commission or Transaction the caller holds (NoEntity: none)
    entOp,      \* the entity operation whose outcome is pending ("none": idle)
    entFields,  \* the field values given to the constructor
    entArg,     \* the arguments given to create_new or to an update method
    entRet,     \* the outcome of the pending operation
    commissions,    \* the list of Commission objects given to AnalyticsMapper
    partners,       \* the list of Partner objects given to AnalyticsMapper
    include_growth, \* the include_growth argument
    mapOp,          \* the AnalyticsMapper call made ("none": not yet)
    mapMonthly,     \* the list create_monthly_commission_data returned
    mapPartner,     \* the list create_partner_commission_data returned
    store,      \* the commissions held by the repository
    dashNow,    \* datetime.now() as the dashboard service reads it
    dashOp,     \* the DashboardService call made ("none": not yet)
    dashArg,    \* the financial_year label given to the call
    dashRet,    \* the outcome of the call
    partnerStore,   \* the partners held by the partner repository
    repOp,      \* the report requested from DashboardService ("none": not yet)
    repArg,     \* the financial_year label given to the report
    repN,       \* the months argument of get_commission_trends
    repRet,     \* the outcome of the report
    partnerTable,    \* the ids of the rows of the partner table
    commissionTable, \* the rows of the commission table
    calls,      \* the service calls in progress: operation, argument, position
    services,   \* Container._services: the descriptor of each interface
    singletons, \* Container._singletons: the cached instance of each interface
    made,       \* the number of objects created so far
    ctrOp,      \* the last Container operation
    ctrArg,     \* the interface it was given
    ctrRet      \* its outcome

fyVars == <<fyPend, fyOp, argStr, argDate, argYear, argFmt, fy, fyRet>>

moneyVars == <<mSelf, mOther, mOp, mArgAmount, mArgCur, mFactor, mRet>>

entVars == <<now, ent, entOp, entFields, entArg, entRet>>

mapVars == <<commissions, partners, include_growth, mapOp, mapMonthly, mapPartner>>

dashVars == <<store, dashNow, dashOp, dashArg, dashRet>>

repVars == <<partnerStore, repOp, repArg, repN, repRet>>

svcVars == <<partnerTable, commissionTable, calls>>

ctrVars == <<services, singletons, made, ctrOp, ctrArg, ctrRet>>

vars == <<fyVars, moneyVars, entVars, mapVars, dashVars, repVars, svcVars, ctrVars>>

nonFyVars == <<moneyVars, entVars, mapVars, dashVars, repVars, svcVars, ctrVars>>

nonMoneyVars == <<fyVars, entVars, mapVars, dashVars, repVars, svcVars, ctrVars>>

nonEntVars == <<fyVars, moneyVars, mapVars, dashVars, repVars, svcVars, ctrVars>>

nonMapVars == <<fyVars, moneyVars, entVars, dashVars, repVars, svcVars, ctrVars>>

nonDashVars == <<fyVars, moneyVars, entVars, mapVars, repVars, svcVars, ctrVars>>

\* The reports read the repository's commissions (store) and nothing else of
\* the dashboard state.
nonRepVars ==
    <<fyVars, moneyVars, entVars, mapVars, dashNow, dashOp, dashArg, dashRet,
      svcVars, ctrVars>>

nonSvcVars == <<fyVars, moneyVars, entVars, mapVars, dashVars, repVars, ctrVars>>

nonCtrVars == <<fyVars, moneyVars, entVars, mapVars, dashVars, repVars, svcVars>>

-----------------------------------------------------------------------------
(* Bounds of the model.                                                    *)

\* Calendar years modelled on each side of a pivot year.
YearSpan == 1

\* A year of the present epoch, away from every pivot of the parser.
EpochYear == 2024

\* The largest amount, in hundredths, a caller carries on to a further
\* Money operation.
MaxCents == 300

\* The longest list of commissions given to an aggregation.
MaxCommissions == 3

\* The last tick of the clock.
MaxNow == 3

\* Ticks of the clock in one calendar day.
TicksPerDay == 2

\* Fractional digits the model keeps in the quotient of a Decimal division
\* (the decimal context of the program keeps 28 significant digits).
DivPlaces == 4

-----------------------------------------------------------------------------
(* Program constants.                                                      *)

MIN_START_YEAR == 1900
MAX_START_YEAR == 2100
CENTURY_BASE   == 2000
FY_START_MONTH == 4
FY_END_MONTH   == 3
FY_END_DAY     == 31
CENT_EXP       == -2
CURRENCY_LEN   == 3
MAX_DESCRIPTION == 500

-----------------------------------------------------------------------------
(* datetime.date                                                           *)

Date(y, m, d) == [year |-> y, month |-> m, day |-> d]

NoDate == Date(0, 0, 0)

IsLeap(y) == (y % 4 = 0 /\ y % 100 # 0) \/ y % 400 = 0

DaysInMonth(y, m) ==
    IF m = 2 THEN (IF IsLeap(y) THEN 29 ELSE 28)
    ELSE IF m \in {4, 6, 9, 11} THEN 30 ELSE 31

\* date.__le__: (year, month, day) compared lexicographically.
DateLE(a, b) ==
    \/ a.year < b.year
    \/ a.year = b.year /\ a.month < b.month
    \/ a.year = b.year /\ a.month = b.month /\ a.day <= b.day

DateGT(a, b) == ~DateLE(a, b)

NextDay(d) ==
    IF d.day < DaysInMonth(d.year, d.month) THEN Date(d.year, d.month, d.day + 1)
    ELSE IF d.month < 12 THEN Date(d.year, d.month + 1, 1)
    ELSE Date(d.year + 1, 1, 1)

RECURSIVE AddDays(_, _)
AddDays(d, k) == IF k <= 0 THEN d ELSE AddDays(NextDay(d), k - 1)

-----------------------------------------------------------------------------
(* str: upper, replace, strip, int, and the :02d format                    *)

DigitChars == <<"0", "1", "2", "3", "4", "5", "6", "7", "8", "9">>

IsDigit(c) == \E i \in 1..10 : DigitChars[i] = c

DigitVal(c) == (CHOOSE i \in 1..10 : DigitChars[i] = c) - 1

IsSpace(c) == c \in {" ", "\t", "\n"}

UpperChar(c) ==
    CASE c = "f" -> "F"
      [] c = "y" -> "Y"
      [] c = "q" -> "Q"
      [] OTHER   -> c

Upper(s) == [i \in 1..Len(s) |-> UpperChar(s[i])]

RECURSIVE ReplaceFY(_)
\* s.replace("FY", ""): every non-overlapping occurrence, left to right.
ReplaceFY(s) ==
    IF Len(s) = 0 THEN <<>>
    ELSE IF Len(s) >= 2 /\ s[1] = "F" /\ s[2] = "Y"
         THEN ReplaceFY(SubSeq(s, 3, Len(s)))
         ELSE <<s[1]>> \o ReplaceFY(Tail(s))

RECURSIVE LStrip(_)
LStrip(s) == IF Len(s) > 0 /\ IsSpace(s[1]) THEN LStrip(Tail(s)) ELSE s

RECURSIVE RStrip(_)
RStrip(s) ==
    IF Len(s) > 0 /\ IsSpace(s[Len(s)]) THEN RStrip(SubSeq(s, 1, Len(s) - 1)) ELSE s

Strip(s) == RStrip(LStrip(s))

RECURSIVE ToInt(_)
\* int(s) for a string of decimal digits.
ToInt(s) ==
    IF Len(s) = 0 THEN 0
    ELSE ToInt(SubSeq(s, 1, Len(s) - 1)) * 10 + DigitVal(s[Len(s)])

AllDigits(s, from, to) == \A i \in from..to : IsDigit(s[i])

\* f"{n:02d}" for 0 <= n <= 99.
TwoDigits(n) == <<DigitChars[(n \div 10) + 1], DigitChars[(n % 10) + 1]>>

\* f"{n}" for 1000 <= n <= 9999.
FourDigits(n) ==
    <<DigitChars[(n \div 1000) + 1], DigitChars[((n \div 100) % 10) + 1],
      DigitChars[((n \div 10) % 10) + 1], DigitChars[(n % 10) + 1]>>

-----------------------------------------------------------------------------
(* Outcomes of FinancialYear calls                                         *)

NoFY == [start_year |-> 0, end_year |-> 0]

NoRet == [kind |-> "none", err |-> "", fy |-> NoFY, b |-> FALSE, n |-> 0, s |-> <<>>]

Raise(e)   == [NoRet EXCEPT !.kind = "raise", !.err = e]
RetFY(f)   == [NoRet EXCEPT !.kind = "fy", !.fy = f]
RetBool(x) == [NoRet EXCEPT !.kind = "bool", !.b = x]
RetInt(x)  == [NoRet EXCEPT !.kind = "int", !.n = x]
RetStr(x)  == [NoRet EXCEPT !.kind = "str", !.s = x]

-----------------------------------------------------------------------------
(* FinancialYear                                                           *)

\* Mutant of FinancialYear: the upper limit of start_year is not checked.
FinancialYear_NoUpperLimit(start_year, end_year) ==
    IF end_year # start_year + 1 THEN Raise("ValueError")
    ELSE IF start_year < MIN_START_YEAR
         THEN Raise("ValueError")
         ELSE RetFY([start_year |-> start_year, end_year |-> end_year])

\* FinancialYear(start_year, end_year): the dataclass constructor followed by
\* __post_init__.
FinancialYear(start_year, end_year) ==
    IF end_year # start_year + 1 THEN Raise("ValueError")
    ELSE IF start_year < MIN_START_YEAR \/ start_year > MAX_START_YEAR
         THEN Raise("ValueError")
         ELSE RetFY([start_year |-> start_year, end_year |-> end_year])

\* The three regular expressions of from_string, tried in order, on the
\* cleaned string: the groups matched, or <<>> when none matches.
MatchGroups(c) ==
    IF Len(c) = 9 /\ AllDigits(c, 1, 4) /\ c[5] = "-" /\ AllDigits(c, 6, 9)
    THEN <<SubSeq(c, 1, 4), SubSeq(c, 6, 9)>>
    ELSE IF Len(c) = 7 /\ AllDigits(c, 1, 4) /\ c[5] = "-" /\ AllDigits(c, 6, 7)
    THEN <<SubSeq(c, 1, 4), SubSeq(c, 6, 7)>>
    ELSE IF Len(c) = 5 /\ AllDigits(c, 1, 2) /\ c[3] = "-" /\ AllDigits(c, 4, 5)
    THEN <<SubSeq(c, 1, 2), SubSeq(c, 4, 5)>>
    ELSE <<>>

from_string(fy_string) ==
    IF Len(fy_string) = 0 THEN Raise("ValueError")
    ELSE
      LET clean_string == Strip(ReplaceFY(Upper(fy_string)))
          groups == MatchGroups(clean_string)
      IN IF groups = <<>> THEN Raise("ValueError")
         ELSE
           LET start_str == groups[1]
               end_str == groups[2]
               start_year == IF Len(start_str) = 2
                             THEN CENTURY_BASE + ToInt(start_str)
                             ELSE ToInt(start_str)
               end_year_suffix == ToInt(end_str)
               end_year ==
                   IF Len(end_str) = 2
                   THEN IF end_year_suffix = (start_year + 1) % 100
                        THEN start_year + 1
                        ELSE IF start_year % 100 = 99
                             THEN start_year + 1
                             ELSE (start_year \div 100) * 100 + end_year_suffix
                   ELSE ToInt(end_str)
           IN FinancialYear(start_year, end_year)

\* Mutant of from_date: April is put in the financial year that ends in it.
from_date_AprilEarly(date_obj) ==
    IF date_obj.month > FY_START_MONTH
    THEN FinancialYear(date_obj.year, date_obj.year + 1)
    ELSE FinancialYear(date_obj.year - 1, date_obj.year)

from_date(date_obj) ==
    IF date_obj.month >= FY_START_MONTH
    THEN FinancialYear(date_obj.year, date_obj.year + 1)
    ELSE FinancialYear(date_obj.year - 1, date_obj.year)

from_year(year) == FinancialYear(year, year + 1)

get_start_date(self) == Date(self.start_year, FY_START_MONTH, 1)

\* Mutant of get_end_date: the year ends on 30 March.
get_end_date_Mar30(self) == Date(self.end_year, FY_END_MONTH, FY_END_DAY - 1)

get_end_date(self) == Date(self.end_year, FY_END_MONTH, FY_END_DAY)

contains_date(self, date_obj) ==
    DateLE(get_start_date(self), date_obj) /\ DateLE(date_obj, get_end_date(self))

get_months(self) ==
    [i \in 1..9 |-> <<self.start_year, i + 3>>] \o [i \in 1..3 |-> <<self.end_year, i>>]

\* Mutant of get_quarter: June is left out of the first quarter.
get_quarter_JuneLate(self, date_obj) ==
    IF ~contains_date(self, date_obj) THEN Raise("ValueError")
    ELSE IF date_obj.month >= 4 /\ date_obj.month < 6 THEN RetInt(1)
    ELSE IF date_obj.month >= 7 /\ date_obj.month <= 9 THEN RetInt(2)
    ELSE IF date_obj.month >= 10 /\ date_obj.month <= 12 THEN RetInt(3)
    ELSE RetInt(4)

get_quarter(self, date_obj) ==
    IF ~contains_date(self, date_obj) THEN Raise("ValueError")
    ELSE IF date_obj.month >= 4 /\ date_obj.month <= 6 THEN RetInt(1)
    ELSE IF date_obj.month >= 7 /\ date_obj.month <= 9 THEN RetInt(2)
    ELSE IF date_obj.month >= 10 /\ date_obj.month <= 12 THEN RetInt(3)
    ELSE RetInt(4)

next_year(self) == FinancialYear(self.start_year + 1, self.end_year + 1)

previous_year(self) == FinancialYear(self.start_year - 1, self.end_year - 1)

to_string(self, format_type) ==
    IF format_type = "short"
    THEN RetStr(<<"F", "Y">> \o TwoDigits(self.start_year % 100) \o <<"-">>
                \o TwoDigits(self.end_year % 100))
    ELSE IF format_type = "medium"
    THEN RetStr(<<"F", "Y">> \o FourDigits(self.start_year) \o <<"-">>
                \o TwoDigits(self.end_year % 100))
    ELSE IF format_type = "long"
    THEN RetStr(<<"F", "Y">> \o FourDigits(self.start_year) \o <<"-">>
                \o FourDigits(self.end_year))
    ELSE Raise("ValueError")

-----------------------------------------------------------------------------
(* decimal.Decimal: [coef, exp] stands for coef * 10^exp, exp <= 0         *)

Dec(c, e) == [coef |-> c, exp |-> e]

NoDec == Dec(0, 1)

RECURSIVE Pow10(_)
Pow10(n) == IF n <= 0 THEN 1 ELSE 10 * Pow10(n - 1)

Min(a, b) == IF a <= b THEN a ELSE b

\* coef of a at the (smaller or equal) exponent e.
Rescale(a, e) == a.coef * Pow10(a.exp - e)

DecAdd(a, b) ==
    LET e == Min(a.exp, b.exp) IN Dec(Rescale(a, e) + Rescale(b, e), e)

DecSub(a, b) ==
    LET e == Min(a.exp, b.exp) IN Dec(Rescale(a, e) - Rescale(b, e), e)

DecMul(a, b) == Dec(a.coef * b.coef, a.exp + b.exp)

\* a / b for a >= 0 and b > 0: the quotient at DivPlaces fractional digits,
\* rounded half-even as the default context rounds.  Within the bounds of the
\* model this loses nothing a later quantize to two places could see.
DecDiv(a, b) ==
    LET e == Min(a.exp, b.exp)
        num == Rescale(a, e) * Pow10(DivPlaces)
        den == Rescale(b, e)
        q == num \div den
        r == num % den
    IN Dec(IF 2 * r > den \/ (2 * r = den /\ q % 2 = 1) THEN q + 1 ELSE q,
           -DivPlaces)

\* Mutant of Quantize: ROUND_HALF_EVEN in place of ROUND_HALF_UP.
Quantize_HalfEven(a) ==
    IF a.exp >= CENT_EXP
    THEN Dec(a.coef * Pow10(a.exp - CENT_EXP), CENT_EXP)
    ELSE LET p == Pow10(CENT_EXP - a.exp)
             q == a.coef \div p
             r == a.coef % p
         IN Dec(IF 2 * r > p \/ (2 * r = p /\ q % 2 = 1) THEN q + 1 ELSE q,
                CENT_EXP)

\* amount.quantize(Decimal("0.01"), rounding=ROUND_HALF_UP), for amount >= 0.
Quantize(a) ==
    IF a.exp >= CENT_EXP
    THEN Dec(a.coef * Pow10(a.exp - CENT_EXP), CENT_EXP)
    ELSE LET p == Pow10(CENT_EXP - a.exp)
             q == a.coef \div p
             r == a.coef % p
         IN Dec(IF 2 * r >= p THEN q + 1 ELSE q, CENT_EXP)

-----------------------------------------------------------------------------
(* Money                                                                   *)

NoMoney == [amount |-> NoDec, currency |-> <<>>]

NoMRet == [kind |-> "none", err |-> "", money |-> NoMoney]

MRaise(e) == [kind |-> "raise", err |-> e, money |-> NoMoney]

MReturn(m) == [kind |-> "money", err |-> "", money |-> m]

\* Mutant of Money: the amount is stored as given, without rounding.
Money_NotRounded(amount, currency) ==
    IF amount.coef < 0 THEN MRaise("ValueError")
    ELSE IF Len(currency) = 0 \/ Len(currency) # CURRENCY_LEN
         THEN MRaise("ValueError")
         ELSE MReturn([amount |-> amount, currency |-> currency])

\* Mutant of Money: a negative amount is not rejected.
Money_NegativeAllowed(amount, currency) ==
    IF Len(currency) = 0 \/ Len(currency) # CURRENCY_LEN
    THEN MRaise("ValueError")
    ELSE MReturn([amount |-> Quantize(amount), currency |-> currency])

\* Money(amount, currency): the dataclass constructor followed by
\* __post_init__.
Money(amount, currency) ==
    IF amount.coef < 0 THEN MRaise("ValueError")
    ELSE IF Len(currency) = 0 \/ Len(currency) # CURRENCY_LEN
         THEN MRaise("ValueError")
         ELSE MReturn([amount |-> Quantize(amount), currency |-> currency])

\* Money.from_float(amount, currency): amount is given as Decimal(str(amount)),
\* the shortest decimal that reads back as the float.
from_float(amount, currency) == Money(amount, currency)

\* Money.from_int(amount, currency): Decimal(amount) has exponent 0.
from_int(amount, currency) == Money(Dec(amount, 0), currency)

zero(currency) == Money(Dec(0, 0), currency)

\* Mutant of add: the currencies are not compared.
add_AnyCurrency(self, other) ==
    Money(DecAdd(self.amount, other.amount), self.currency)

add(self, other) ==
    IF self.currency # other.currency THEN MRaise("ValueError")
    ELSE Money(DecAdd(self.amount, other.amount), self.currency)

subtract(self, other) ==
    IF self.currency # other.currency THEN MRaise("ValueError")
    ELSE LET result_amount == DecSub(self.amount, other.amount)
         IN IF result_amount.coef < 0 THEN MRaise("ValueError")
            ELSE Money(result_amount, self.currency)

multiply(self, factor) ==
    IF factor.coef < 0 THEN MRaise("ValueError")
    ELSE Money(DecMul(self.amount, factor), self.currency)

divide(self, divisor) ==
    IF divisor.coef <= 0 THEN MRaise("ValueError")
    ELSE Money(DecDiv(self.amount, divisor), self.currency)

is_zero(self) == self.amount.coef = 0

is_positive(self) == self.amount.coef > 0

-----------------------------------------------------------------------------
(* Inputs of the Money operations                                          *)

INR == <<"I", "N", "R">>

USD == <<"U", "S", "D">>

Currencies == {INR, USD, <<>>, <<"R", "s">>, <<"E", "U", "R", "O">>}

\* Decimal(str(x)) of the floats given to from_float and to the constructor.
FloatInputs ==
    { Dec(0, -1), Dec(4, -3), Dec(5, -3), Dec(14, -3), Dec(15, -3), Dec(25, -3),
      Dec(994, -3), Dec(995, -3), Dec(10, -1), Dec(25, -1), Dec(1125, -3),
      Dec(10004, -3), Dec(10005, -3), Dec(10015, -3), Dec(12345, -4),
      Dec(-1, -3), Dec(-1, -2), Dec(-10, -1) }

IntInputs == {-1, 0, 1, 3}

\* The Money objects a caller can have built as the second operand.
Others ==
    {Money(a, c).money : a \in {Dec(0, 0), Dec(1, -2), Dec(5, -1), Dec(125, -2)},
                         c \in {INR, USD}}

Factors ==
    { Dec(0, 0), Dec(5, -1), Dec(125, -3), Dec(15, -1), Dec(2, 0), Dec(3, 0),
      Dec(7, 0), Dec(3, -1), Dec(18, -2), Dec(-5, -1), Dec(-1, 0) }

-----------------------------------------------------------------------------
(* The values of the variables while nothing is held and no call is        *)
(* pending.  Each specification keeps the variables of the others at these. *)

\* description = None
None == [none |-> TRUE, lead |-> 0, body |-> 0, trail |-> 0]

\* updated_at = None
NoTime == -1

NoEntity ==
    [cls |-> "", id |-> <<>>, partner_id |-> <<>>, amount |-> NoMoney,
     transaction_date |-> NoDate, financial_year |-> NoFY, description |-> None,
     created_at |-> NoTime, updated_at |-> NoTime]

NoERet == [kind |-> "none", err |-> "", ent |-> NoEntity]

NoEntArg ==
    [partner_id |-> <<>>, amount |-> NoMoney, description |-> None, date |-> NoDate]

EntIdle ==
    /\ now = 0 /\ ent = NoEntity /\ entOp = "none" /\ entFields = NoEntity
    /\ entArg = NoEntArg /\ entRet = NoERet

\* A float obtained by division, and the value None.
Frac(n, d) == [none |-> FALSE, num |-> n, den |-> d]

NoFloat == [none |-> TRUE, num |-> 0, den |-> 1]

NoMetrics ==
    [selectedFY |-> <<>>, currentYearTotal |-> 0, yoyGrowth |-> NoFloat,
     commissionCount |-> 0]

NoOverview ==
    [total_commission |-> 0, current_month |-> "", current_month_commission |-> 0,
     prev_month |-> "", prev_year |-> 0, prev_month_commission |-> 0,
     current_fy |-> <<>>, fy_commission |-> 0, growth_rate |-> NoFloat,
     isPositive |-> FALSE]

NoDRet ==
    [kind |-> "none", err |-> "", metrics |-> NoMetrics, quarters |-> <<>>,
     overview |-> NoOverview, status |-> 0]

NoRRet == [kind |-> "none", err |-> "", rows |-> <<>>]

RepIdle ==
    /\ partnerStore = <<>> /\ repOp = "none" /\ repArg = <<>> /\ repN = 0
    /\ repRet = NoRRet

SvcIdle == partnerTable = {} /\ commissionTable = <<>> /\ calls = <<>>

NoInstance == [cls |-> "", serial |-> 0]

NoCRet == [kind |-> "none", err |-> "", inst |-> NoInstance]

CtrIdle ==
    /\ services = <<>> /\ singletons = <<>> /\ made = 0 /\ ctrOp = "none"
    /\ ctrArg = "" /\ ctrRet = NoCRet

DashIdle ==
    /\ store = <<>> /\ dashNow = NoDate /\ dashOp = "none" /\ dashArg = <<>>
    /\ dashRet = NoDRet

MapIdle ==
    /\ commissions = <<>> /\ partners = <<>> /\ include_growth = FALSE
    /\ mapOp = "none" /\ mapMonthly = <<>> /\ mapPartner = <<>>

FYIdle ==
    /\ fyPend = "none" /\ fyOp = "none" /\ argStr = <<>> /\ argDate = NoDate
    /\ argYear = 0 /\ argFmt = "" /\ fy = NoFY /\ fyRet = NoRet

MoneyIdle ==
    /\ mSelf = NoMoney /\ mOther = NoMoney /\ mOp = "none" /\ mArgAmount = NoDec
    /\ mArgCur = <<>> /\ mFactor = NoDec /\ mRet = NoMRet

-----------------------------------------------------------------------------
(* Specification SpecMoney: a caller builds a Money, applies add, subtract, *)
(* multiply and divide to it, and carries the result on to the next call.   *)

InitMoney ==
    /\ RepIdle
    /\ SvcIdle
    /\ CtrIdle
    /\ DashIdle
    /\ MapIdle
    /\ FYIdle
    /\ EntIdle
    /\ mSelf = NoMoney
    /\ mOther \in Others
    /\ mOp = "none"
    /\ mArgAmount = NoDec
    /\ mArgCur = <<>>
    /\ mFactor = NoDec
    /\ mRet = NoMRet

\* Money(amount, currency) called directly.
MoneyInit ==
    /\ mOp = "none" /\ mSelf = NoMoney
    /\ \E amount \in FloatInputs, currency \in Currencies :
          /\ mRet' = Money(amount, currency)
          /\ mArgAmount' = amount
          /\ mArgCur' = currency
    /\ mOp' = "Money"
    /\ UNCHANGED <<mSelf, mOther, mFactor, nonMoneyVars>>

MoneyFromFloat ==
    /\ mOp = "none" /\ mSelf = NoMoney
    /\ \E amount \in FloatInputs, currency \in Currencies :
          /\ mRet' = from_float(amount, currency)
          /\ mArgAmount' = amount
          /\ mArgCur' = currency
    /\ mOp' = "from_float"
    /\ UNCHANGED <<mSelf, mOther, mFactor, nonMoneyVars>>

MoneyFromInt ==
    /\ mOp = "none" /\ mSelf = NoMoney
    /\ \E amount \in IntInputs, currency \in Currencies :
          /\ mRet' = from_int(amount, currency)
          /\ mArgAmount' = Dec(amount, 0)
          /\ mArgCur' = currency
    /\ mOp' = "from_int"
    /\ UNCHANGED <<mSelf, mOther, mFactor, nonMoneyVars>>

MoneyZero ==
    /\ mOp = "none" /\ mSelf = NoMoney
    /\ \E currency \in Currencies :
          /\ mRet' = zero(currency)
          /\ mArgCur' = currency
    /\ mArgAmount' = Dec(0, 0)
    /\ mOp' = "zero"
    /\ UNCHANGED <<mSelf, mOther, mFactor, nonMoneyVars>>

MoneyAdd ==
    /\ mOp = "none" /\ mSelf # NoMoney
    /\ mRet' = add(mSelf, mOther)
    /\ mOp' = "add"
    /\ UNCHANGED <<mSelf, mOther, mArgAmount, mArgCur, mFactor, nonMoneyVars>>

MoneySubtract ==
    /\ mOp = "none" /\ mSelf # NoMoney
    /\ mRet' = subtract(mSelf, mOther)
    /\ mOp' = "subtract"
    /\ UNCHANGED <<mSelf, mOther, mArgAmount, mArgCur, mFactor, nonMoneyVars>>

MoneyMultiply ==
    /\ mOp = "none" /\ mSelf # NoMoney
    /\ \E factor \in Factors :
          /\ mRet' = multiply(mSelf, factor)
          /\ mFactor' = factor
    /\ mOp' = "multiply"
    /\ UNCHANGED <<mSelf, mOther, mArgAmount, mArgCur, nonMoneyVars>>

MoneyDivide ==
    /\ mOp = "none" /\ mSelf # NoMoney
    /\ \E divisor \in Factors :
          /\ mRet' = divide(mSelf, divisor)
          /\ mFactor' = divisor
    /\ mOp' = "divide"
    /\ UNCHANGED <<mSelf, mOther, mArgAmount, mArgCur, nonMoneyVars>>

\* The caller goes on with the Money returned (x = x.add(y)), or with the one
\* it had when the call raised.
MoneyKeep ==
    /\ mOp # "none"
    /\ mRet.kind = "money" => mRet.money.amount.coef <= MaxCents
    /\ mSelf' = IF mRet.kind = "money" THEN mRet.money ELSE mSelf
    /\ mOp' = "none"
    /\ mArgAmount' = NoDec
    /\ mArgCur' = <<>>
    /\ mFactor' = NoDec
    /\ mRet' = NoMRet
    /\ UNCHANGED <<mOther, nonMoneyVars>>

NextMoney ==
    \/ MoneyInit
    \/ MoneyFromFloat
    \/ MoneyFromInt
    \/ MoneyZero
    \/ MoneyAdd
    \/ MoneySubtract
    \/ MoneyMultiply
    \/ MoneyDivide
    \/ MoneyKeep

SpecMoney == InitMoney /\ [][NextMoney]_vars

-----------------------------------------------------------------------------
(* Properties of Money (checked under SpecMoney)                           *)

MoneyConstructors == {"Money", "from_float", "from_int", "zero"}

\* The exact result of the pending operation in hundredths, as a fraction
\* num / den with den > 0.
ExactNum ==
    CASE mOp \in MoneyConstructors ->
             IF mArgAmount.exp >= -2
             THEN mArgAmount.coef * Pow10(mArgAmount.exp + 2)
             ELSE mArgAmount.coef
      [] mOp = "add" -> mSelf.amount.coef + mOther.amount.coef
      [] mOp = "subtract" -> mSelf.amount.coef - mOther.amount.coef
      [] mOp = "multiply" -> mSelf.amount.coef * mFactor.coef
      [] mOp = "divide" -> mSelf.amount.coef * Pow10(-mFactor.exp)
      [] OTHER -> 0

ExactDen ==
    CASE mOp \in MoneyConstructors ->
             IF mArgAmount.exp >= -2 THEN 1 ELSE Pow10(-2 - mArgAmount.exp)
      [] mOp = "multiply" -> Pow10(-mFactor.exp)
      [] mOp = "divide" -> mFactor.coef
      [] OTHER -> 1

\* r is num / den rounded to the nearest integer, a tie going up.
IsHalfUp(r, num, den) ==
    /\ 2 * r * den <= 2 * num + den
    /\ 2 * num + den < 2 * (r + 1) * den

TwoPlacesNonNegative(m) == m.amount.exp = -2 /\ m.amount.coef >= 0

\* C6: after any sequence of constructions and of add, subtract, multiply and
\* divide, every Money has an amount >= 0 held to exactly two decimal places,
\* and each Money returned is the exact result of its operation rounded
\* half-up once.
C6_MoneyIsRoundedAndNonNegative ==
    /\ mSelf # NoMoney => TwoPlacesNonNegative(mSelf)
    /\ mOther # NoMoney => TwoPlacesNonNegative(mOther)
    /\ mRet.kind = "money" =>
          /\ TwoPlacesNonNegative(mRet.money)
          /\ IsHalfUp(mRet.money.amount.coef, ExactNum, ExactDen)

\* A division by 3 that leaves two thirds of a hundredth, rounded up.
C6_Witness ==
    /\ mOp = "divide"
    /\ mRet.kind = "money"
    /\ mFactor = Dec(3, 0)
    /\ mSelf.amount.coef % 3 = 2

PreconditionViolated ==
    \/ /\ mOp = "subtract"
       /\ mSelf.currency = mOther.currency
       /\ mSelf.amount.coef < mOther.amount.coef
    \/ mOp = "multiply" /\ mFactor.coef < 0
    \/ mOp = "divide" /\ mFactor.coef <= 0
    \/ /\ mOp \in MoneyConstructors
       /\ mArgAmount.coef < 0 \/ Len(mArgCur) # 3

\* C8: a call whose precondition is violated (subtract with a negative
\* result, multiply by a negative factor, divide by a divisor <= 0,
\* construction from a negative amount or from a currency that is not 3
\* characters long) raises, and both operands are as they were before it.
C8_ViolatedPreconditionRaises ==
    [][mOp = "none" /\ mOp' # "none" /\ PreconditionViolated'
          => /\ mRet'.kind = "raise"
             /\ mSelf' = mSelf
             /\ mOther' = mOther]_vars

C8_Witness ==
    /\ mOp = "from_int"
    /\ mArgAmount.coef < 0
    /\ Len(mArgCur) = 3
    /\ mRet.kind = "raise"

\* C9: constructing a Money from an amount with more than two decimal places
\* rounds it to the nearest hundredth, an amount exactly half a hundredth above
\* a hundredth going up; Money.from_float(10.005, "INR") has amount 10.01.
C9_ConstructionRoundsHalfUp ==
    /\ mOp = "from_float" /\ mArgAmount = Dec(10005, -3) /\ mArgCur = INR
          => mRet = MReturn([amount |-> Dec(1001, -2), currency |-> INR])
    /\ mOp \in {"Money", "from_float"} /\ mRet.kind = "money" /\ mArgAmount.exp < -2
          => LET p == Pow10(-2 - mArgAmount.exp)
                 cents == mRet.money.amount.coef
             IN /\ 2 * (cents * p - mArgAmount.coef) <= p
                /\ 2 * (mArgAmount.coef - cents * p) < p
                /\ 2 * (mArgAmount.coef % p) = p
                      => cents = (mArgAmount.coef \div p) + 1

C9_Witness ==
    /\ mOp = "from_float"
    /\ mArgAmount = Dec(10005, -3)
    /\ mArgCur = INR
    /\ mRet.kind = "money"

-----------------------------------------------------------------------------
(* Inputs of the FinancialYear operations                                  *)

Pivots == {MIN_START_YEAR, CENTURY_BASE, EpochYear, MAX_START_YEAR}

Years == UNION {(p - YearSpan)..(p + YearSpan) : p \in Pivots}

DayInputs == {1, 2, 15, 28, 29, 30, 31}

Dates ==
    {Date(y, m, d) : y \in Years, m \in 1..12, d \in DayInputs}
        \ {x \in [year : Years, month : 1..12, day : DayInputs] :
               x.day > DaysInMonth(x.year, x.month)}

Prefixes == {<<>>, <<"F", "Y">>, <<"f", "y">>}

LabelBodies ==
    {TwoDigits(a) \o <<"-">> \o TwoDigits(b) : a \in 0..99, b \in 0..99}
    \cup {FourDigits(y) \o <<"-">> \o TwoDigits(b) : y \in Years, b \in 0..99}
    \cup {FourDigits(y) \o <<"-">> \o FourDigits(z) : y \in Years, z \in Years}

OddStrings ==
    { <<>>, <<"F", "Y">>, <<" ">>,
      <<"2", "0", "2", "4">>,
      <<"2", "4", "-", "2", "0", "2", "5">>,
      <<"2", "0", "2", "4", "/", "2", "5">>,
      <<"2", "4", "-", "2", "5", "-">>,
      <<"2", "4", "5", "-", "2", "4", "6">>,
      <<"F", "Y", " ", "2", "4", "-", "2", "5">>,
      <<" ", "f", "y", "2", "4", "-", "2", "5", " ">>,
      <<"F", "2", "4", "-", "2", "5", "Y">>,
      <<"F", "F", "Y", "Y", "2", "4", "-", "2", "5">>,
      <<"2", "4", "-", "2", "5", "F", "Y">>,
      <<"2", "F", "Y", "4", "-", "2", "5">>,
      <<"Q", "1", "-", "2", "5">> }

FYStrings == {p \o b : p \in Prefixes, b \in LabelBodies} \cup OddStrings

Formats == {"short", "medium", "long", "full"}

-----------------------------------------------------------------------------
(* Specification SpecFY: a FinancialYear is built by one of the three      *)
(* constructors and then walked with next_year / previous_year and         *)
(* formatted with to_string.                                               *)

NoArgs == argStr' = <<>> /\ argDate' = NoDate /\ argYear' = 0 /\ argFmt' = ""

\* What the caller holds after a constructor call.
Held(ret) == IF ret.kind = "fy" THEN ret.fy ELSE NoFY

InitFY ==
    /\ RepIdle
    /\ SvcIdle
    /\ CtrIdle
    /\ DashIdle
    /\ MapIdle
    /\ MoneyIdle
    /\ EntIdle
    /\ fyOp = "none"
    /\ fy = NoFY
    /\ fyRet = NoRet
    /\ argFmt = ""
    /\ \/ fyPend = "from_string" /\ argStr \in FYStrings
          /\ argDate = NoDate /\ argYear = 0
       \/ fyPend = "from_date" /\ argDate \in Dates
          /\ argStr = <<>> /\ argYear = 0
       \/ fyPend = "from_year" /\ argYear \in Years
          /\ argStr = <<>> /\ argDate = NoDate

FromString ==
    /\ fyPend = "from_string"
    /\ fyRet' = from_string(argStr)
    /\ fy' = Held(fyRet')
    /\ fyOp' = "from_string"
    /\ fyPend' = "none"
    /\ UNCHANGED <<argStr, argDate, argYear, argFmt, nonFyVars>>

FromDate ==
    /\ fyPend = "from_date"
    /\ fyRet' = from_date(argDate)
    /\ fy' = Held(fyRet')
    /\ fyOp' = "from_date"
    /\ fyPend' = "none"
    /\ UNCHANGED <<argStr, argDate, argYear, argFmt, nonFyVars>>

FromYear ==
    /\ fyPend = "from_year"
    /\ fyRet' = from_year(argYear)
    /\ fy' = Held(fyRet')
    /\ fyOp' = "from_year"
    /\ fyPend' = "none"
    /\ UNCHANGED <<argStr, argDate, argYear, argFmt, nonFyVars>>

\* fy = fy.next_year(): the caller keeps the old object when the call raises.
NextYear ==
    /\ fyPend = "none"
    /\ fy # NoFY
    /\ fyRet' = next_year(fy)
    /\ fy' = IF fyRet'.kind = "fy" THEN fyRet'.fy ELSE fy
    /\ fyOp' = "next_year"
    /\ NoArgs
    /\ UNCHANGED <<fyPend, nonFyVars>>

PreviousYear ==
    /\ fyPend = "none"
    /\ fy # NoFY
    /\ fyRet' = previous_year(fy)
    /\ fy' = IF fyRet'.kind = "fy" THEN fyRet'.fy ELSE fy
    /\ fyOp' = "previous_year"
    /\ NoArgs
    /\ UNCHANGED <<fyPend, nonFyVars>>

FyToString ==
    /\ fyPend = "none"
    /\ fy # NoFY
    /\ \E format_type \in Formats :
          /\ fyRet' = to_string(fy, format_type)
          /\ argFmt' = format_type
    /\ fyOp' = "to_string"
    /\ argStr' = <<>> /\ argDate' = NoDate /\ argYear' = 0
    /\ UNCHANGED <<fyPend, fy, nonFyVars>>

NextFY ==
    \/ FromString
    \/ FromDate
    \/ FromYear
    \/ NextYear
    \/ PreviousYear
    \/ FyToString

SpecFY == InitFY /\ [][NextFY]_vars

-----------------------------------------------------------------------------
(* Properties of FinancialYear construction (checked under SpecFY)         *)

FYInvariant(f) ==
    /\ f.end_year = f.start_year + 1
    /\ MIN_START_YEAR <= f.start_year
    /\ f.start_year <= MAX_START_YEAR

Constructors == {"from_string", "from_date", "from_year"}

\* C1: every FinancialYear obtained from from_string, from_date, from_year,
\* next_year or previous_year, in any sequence, has end_year = start_year + 1
\* and 1900 <= start_year <= 2100; every such call either returns such a value
\* or raises, and a constructor that raises leaves the caller without a value.
C1_EveryFinancialYearIsValid ==
    /\ fy # NoFY => FYInvariant(fy)
    /\ fyRet.kind = "fy" => FYInvariant(fyRet.fy) /\ fy = fyRet.fy
    /\ fyOp \in Constructors \cup {"next_year", "previous_year"}
          => fyRet.kind \in {"fy", "raise"}
    /\ fyOp \in Constructors /\ fyRet.kind = "raise" => fy = NoFY

\* The year after the last admissible one was asked for, and the call raised.
C1_Witness ==
    /\ fyOp = "next_year"
    /\ fyRet.kind = "raise"
    /\ fy.start_year = MAX_START_YEAR

\* The pair of years the financial year of a date is said to have.
ExpectedYears(d) ==
    IF d.month >= 4
    THEN [start_year |-> d.year, end_year |-> d.year + 1]
    ELSE [start_year |-> d.year - 1, end_year |-> d.year]

Shifted(f, k) == [start_year |-> f.start_year + k, end_year |-> f.end_year + k]

\* C2 as stated: for EVERY date d, from_date(d) is (d.year, d.year + 1) when
\* d.month >= 4 and (d.year - 1, d.year) otherwise, it contains d, and the
\* financial years before and after it do not.
C2_FromDateForEveryDate ==
    fyOp = "from_date" =>
        /\ fyRet = RetFY(ExpectedYears(argDate))
        /\ contains_date(fyRet.fy, argDate)
        /\ ~contains_date(Shifted(fyRet.fy, -1), argDate)
        /\ ~contains_date(Shifted(fyRet.fy, 1), argDate)

\* The dates whose financial year starts in 1900..2100.
FromDateDomain(d) ==
    /\ DateLE(Date(MIN_START_YEAR, 4, 1), d)
    /\ DateLE(d, Date(MAX_START_YEAR + 1, 3, 31))

\* C2 as amended: for every date d from 1 April 1900 to 31 March 2101,
\* from_date(d) is (d.year, d.year + 1) when d.month >= 4 and
\* (d.year - 1, d.year) otherwise, it contains d, and neither previous_year()
\* nor next_year() of it, where that year exists, contains d; for every other
\* date from_date raises.
C2_FromDateWithinRange ==
    fyOp = "from_date" =>
        IF FromDateDomain(argDate)
        THEN /\ fyRet = RetFY(ExpectedYears(argDate))
             /\ contains_date(fyRet.fy, argDate)
             /\ \A r \in {previous_year(fyRet.fy), next_year(fyRet.fy)} :
                    r.kind = "fy" => ~contains_date(r.fy, argDate)
        ELSE fyRet = Raise("ValueError")

\* 31 March, the last day of a financial year that has both neighbours.
C2_Witness ==
    /\ fyOp = "from_date"
    /\ fyRet.kind = "fy"
    /\ argDate.month = 3 /\ argDate.day = 31
    /\ previous_year(fyRet.fy).kind = "fy"
    /\ next_year(fyRet.fy).kind = "fy"

\* C3: for every date d for which from_date(d) succeeds,
\* from_string(from_date(d).to_string("short")) equals from_date(d).
C3_ShortLabelRoundTrip ==
    fyOp = "from_date" /\ fyRet.kind = "fy" =>
        from_string(to_string(fyRet.fy, "short").s) = RetFY(fyRet.fy)

\* The label of a from_string call as the patterns see it.
CleanLabel == Strip(ReplaceFY(Upper(argStr)))

\* C27: whenever from_string accepts a label of the two-digit form ab-cd
\* (with or without the FY prefix), to_string("short") of the result writes
\* the same two numbers ab and cd.
C27_TwoDigitLabelReproduced ==
    (fyOp = "from_string" /\ fyRet.kind = "fy" /\ Len(CleanLabel) = 5) =>
        to_string(fyRet.fy, "short").s = <<"F", "Y">> \o CleanLabel

-----------------------------------------------------------------------------
(* Specification SpecFYQuery: a FinancialYear and a date are given, and    *)
(* contains_date and get_quarter are applied to them.                      *)

ValidFYs == {from_year(y).fy : y \in {z \in Years : from_year(z).kind = "fy"}}

InitFYQuery ==
    /\ RepIdle
    /\ SvcIdle
    /\ CtrIdle
    /\ DashIdle
    /\ MapIdle
    /\ MoneyIdle
    /\ EntIdle
    /\ fyPend = "none"
    /\ fyOp = "none"
    /\ fy \in ValidFYs
    /\ argDate \in Dates
    /\ argStr = <<>>
    /\ argYear = 0
    /\ argFmt = ""
    /\ fyRet = NoRet

ContainsDate ==
    /\ fyRet' = RetBool(contains_date(fy, argDate))
    /\ fyOp' = "contains_date"
    /\ UNCHANGED <<fyPend, fy, argStr, argDate, argYear, argFmt, nonFyVars>>

GetQuarter ==
    /\ fyRet' = get_quarter(fy, argDate)
    /\ fyOp' = "get_quarter"
    /\ UNCHANGED <<fyPend, fy, argStr, argDate, argYear, argFmt, nonFyVars>>

NextFYQuery ==
    \/ ContainsDate
    \/ GetQuarter

SpecFYQuery == InitFYQuery /\ [][NextFYQuery]_vars

-----------------------------------------------------------------------------
(* Properties of the FinancialYear queries (checked under SpecFYQuery)     *)

\* d lies in the April-December part of f's first calendar year or in the
\* January-March part of its second.
InWindow(f, d) ==
    \/ d.year = f.start_year /\ d.month >= 4
    \/ d.year = f.end_year /\ d.month <= 3

\* C4: contains_date(d) is true if and only if d is on or after 1 April of
\* start_year and on or before 31 March of end_year.
C4_ContainsDateIsTheWindow ==
    fyOp = "contains_date" =>
        /\ fyRet.kind = "bool"
        /\ fyRet.b <=> InWindow(fy, argDate)

\* 31 March of the end year is inside.
C4_Witness ==
    /\ fyOp = "contains_date"
    /\ fyRet.b
    /\ argDate = Date(fy.end_year, 3, 31)

\* The quarter of a calendar month: Apr-Jun 1, Jul-Sep 2, Oct-Dec 3, Jan-Mar 4.
QuarterOfMonth(m) == (((m + 8) % 12) \div 3) + 1

\* The positions, in get_months(f), of the months get_quarter puts in q.
QuarterMonths(f, q) ==
    {i \in 1..12 :
        get_quarter(f, Date(get_months(f)[i][1], get_months(f)[i][2], 1)) = RetInt(q)}

\* C5: get_quarter maps each date inside the financial year to one quarter in
\* 1..4 (Apr-Jun 1, Jul-Sep 2, Oct-Dec 3, Jan-Mar of the end year 4), the
\* twelve months of the year fall into four quarters of three consecutive
\* months each, and for a date outside the year get_quarter raises.
C5_GetQuarterPartitionsTheYear ==
    /\ fyOp = "get_quarter" =>
          IF InWindow(fy, argDate)
          THEN fyRet = RetInt(QuarterOfMonth(argDate.month))
          ELSE fyRet = Raise("ValueError")
    /\ \A q \in 1..4 : QuarterMonths(fy, q) = {3 * q - 2, 3 * q - 1, 3 * q}

\* A date of the fourth quarter, in the second calendar year.
C5_Witness ==
    /\ fyOp = "get_quarter"
    /\ fyRet = RetInt(4)
    /\ argDate.year = fy.end_year

-----------------------------------------------------------------------------
(* Commission and Transaction                                              *)
(*                                                                         *)
(* The two classes share their fields, _validate and the three update      *)
(* methods line for line; cls tells them apart.  A description is None or  *)
(* a string given by its leading whitespace, its body (from the first to   *)
(* the last non-blank character) and its trailing whitespace.  Arguments   *)
(* are of their declared types, so the isinstance tests always pass.       *)

Desc(l, b, t) == [none |-> FALSE, lead |-> l, body |-> b, trail |-> t]

\* len(description)
DescLen(d) == d.lead + d.body + d.trail

\* bool(description): neither None nor the empty string.
Truthy(d) == ~d.none /\ DescLen(d) > 0

\* description.strip()
StripDesc(d) == Desc(0, d.body, 0)

ERaise(e) == [kind |-> "raise", err |-> e, ent |-> NoEntity]

EReturn(x) == [kind |-> "entity", err |-> "", ent |-> x]

\* date.today() when the clock reads t: the clock starts on 31 March.
Today(t) == AddDays(Date(EpochYear + 1, FY_END_MONTH, FY_END_DAY), t \div TicksPerDay)

\* _validate at clock t: the exception it raises, or "ok".
validate(self, t) ==
    IF Len(self.id) = 0 \/ Len(Strip(self.id)) = 0 THEN "ValueError"
    ELSE IF Len(self.partner_id) = 0 \/ Len(Strip(self.partner_id)) = 0
    THEN "ValueError"
    ELSE IF ~is_positive(self.amount) THEN "ValueError"
    ELSE IF DateGT(self.transaction_date, Today(t)) THEN "ValueError"
    ELSE IF ~contains_date(self.financial_year, self.transaction_date)
    THEN "ValueError"
    ELSE IF Truthy(self.description)
            /\ DescLen(StripDesc(self.description)) > MAX_DESCRIPTION
    THEN "ValueError"
    ELSE IF self.created_at > t THEN "ValueError"
    ELSE IF self.updated_at # NoTime /\ self.updated_at < self.created_at
    THEN "ValueError"
    ELSE "ok"

\* Commission(...) / Transaction(...): the dataclass constructor followed by
\* __post_init__.
Entity(fields, t) ==
    IF validate(fields, t) = "ok" THEN EReturn(fields) ELSE ERaise(validate(fields, t))

\* Commission.create_new; commission_id is the uuid4 drawn.
create_new(partner_id, amount, transaction_date, description, commission_id, t) ==
    LET financial_year == from_date(transaction_date)
    IN IF financial_year.kind = "raise" THEN ERaise(financial_year.err)
       ELSE Entity([cls |-> "Commission", id |-> commission_id,
                    partner_id |-> partner_id, amount |-> amount,
                    transaction_date |-> transaction_date,
                    financial_year |-> financial_year.fy,
                    description |-> description,
                    created_at |-> t, updated_at |-> NoTime], t)

\* Mutant of update_amount: the new amount is stored without any validation.
update_amount_Unchecked(self, new_amount, t) ==
    EReturn([self EXCEPT !.amount = new_amount, !.updated_at = t])

update_amount(self, new_amount, t) ==
    IF ~is_positive(new_amount) THEN ERaise("ValueError")
    ELSE Entity([self EXCEPT !.amount = new_amount, !.updated_at = t], t)

update_description(self, new_description, t) ==
    IF Truthy(new_description)
       /\ DescLen(StripDesc(new_description)) > MAX_DESCRIPTION
    THEN ERaise("ValueError")
    ELSE Entity([self EXCEPT
                   !.description = IF Truthy(new_description)
                                   THEN StripDesc(new_description) ELSE None,
                   !.updated_at = t], t)

\* Mutant of update_transaction_date: the financial year is not recomputed.
update_transaction_date_StaleFY(self, new_date, t) ==
    IF DateGT(new_date, Today(t)) THEN ERaise("ValueError")
    ELSE Entity([self EXCEPT !.transaction_date = new_date, !.updated_at = t], t)

update_transaction_date(self, new_date, t) ==
    IF DateGT(new_date, Today(t)) THEN ERaise("ValueError")
    ELSE LET new_financial_year == from_date(new_date)
         IN IF new_financial_year.kind = "raise" THEN ERaise(new_financial_year.err)
            ELSE Entity([self EXCEPT !.transaction_date = new_date,
                                     !.financial_year = new_financial_year.fy,
                                     !.updated_at = t], t)

-----------------------------------------------------------------------------
(* Inputs of the entity operations                                         *)

Classes == {"Commission", "Transaction"}

IdInputs == {<<"c", "1">>, <<>>, <<" ">>}

PartnerIdInputs == {<<"p", "1">>, <<" ", " ">>}

Uuids == {<<"u", "1">>, <<"u", "2">>}

AmountInputs == {Money(a, INR).money : a \in {Dec(0, 0), Dec(1, -2), Dec(125, -2)}}

EntDates ==
    { Date(EpochYear + 1, 3, 30), Date(EpochYear + 1, 3, 31),
      Date(EpochYear + 1, 4, 1), Date(EpochYear + 1, 4, 2),
      Date(EpochYear, 4, 1), Date(MIN_START_YEAR, 3, 31) }

EntFYs == {from_year(y).fy : y \in (EpochYear - 1)..(EpochYear + 1)}

DescInputs ==
    { None, Desc(0, 0, 0), Desc(0, 0, 2), Desc(1, 3, 1),
      Desc(0, MAX_DESCRIPTION, 0), Desc(0, MAX_DESCRIPTION, 1),
      Desc(0, MAX_DESCRIPTION + 1, 0) }

-----------------------------------------------------------------------------
(* Specification SpecEntity: a caller constructs a Commission or a         *)
(* Transaction, or calls Commission.create_new, applies the update methods *)
(* to the instance it holds and goes on with the instance returned, while  *)
(* the clock advances.                                                     *)

InitEntity ==
    /\ RepIdle
    /\ SvcIdle
    /\ CtrIdle
    /\ DashIdle
    /\ MapIdle
    /\ FYIdle
    /\ MoneyIdle
    /\ EntIdle

\* Commission(...) or Transaction(...) called with explicit field values.
EntConstruct ==
    /\ entOp = "none" /\ ent = NoEntity
    /\ \E cls \in Classes, id \in IdInputs, partner_id \in PartnerIdInputs,
          amount \in AmountInputs, transaction_date \in EntDates,
          financial_year \in EntFYs, description \in DescInputs,
          created_at \in {0, now, now + 1}, updated_at \in {NoTime, 0, now} :
          LET fields == [cls |-> cls, id |-> id, partner_id |-> partner_id,
                         amount |-> amount, transaction_date |-> transaction_date,
                         financial_year |-> financial_year,
                         description |-> description,
                         created_at |-> created_at, updated_at |-> updated_at]
          IN /\ entRet' = Entity(fields, now)
             /\ entFields' = fields
    /\ entOp' = "construct"
    /\ UNCHANGED <<now, ent, entArg, nonEntVars>>

EntCreateNew ==
    /\ entOp = "none" /\ ent = NoEntity
    /\ \E partner_id \in PartnerIdInputs, amount \in AmountInputs,
          transaction_date \in EntDates, description \in DescInputs,
          commission_id \in Uuids :
          /\ entRet' = create_new(partner_id, amount, transaction_date,
                                  description, commission_id, now)
          /\ entArg' = [partner_id |-> partner_id, amount |-> amount,
                        description |-> description, date |-> transaction_date]
    /\ entOp' = "create_new"
    /\ UNCHANGED <<now, ent, entFields, nonEntVars>>

EntUpdateAmount ==
    /\ entOp = "none" /\ ent # NoEntity
    /\ \E new_amount \in AmountInputs :
          /\ entRet' = update_amount(ent, new_amount, now)
          /\ entArg' = [NoEntArg EXCEPT !.amount = new_amount]
    /\ entOp' = "update_amount"
    /\ UNCHANGED <<now, ent, entFields, nonEntVars>>

EntUpdateDescription ==
    /\ entOp = "none" /\ ent # NoEntity
    /\ \E new_description \in DescInputs :
          /\ entRet' = update_description(ent, new_description, now)
          /\ entArg' = [NoEntArg EXCEPT !.description = new_description]
    /\ entOp' = "update_description"
    /\ UNCHANGED <<now, ent, entFields, nonEntVars>>

EntUpdateTransactionDate ==
    /\ entOp = "none" /\ ent # NoEntity
    /\ \E new_date \in EntDates :
          /\ entRet' = update_transaction_date(ent, new_date, now)
          /\ entArg' = [NoEntArg EXCEPT !.date = new_date]
    /\ entOp' = "update_transaction_date"
    /\ UNCHANGED <<now, ent, entFields, nonEntVars>>

\* The caller goes on with the instance returned, or with the one it had when
\* the call raised.
EntKeep ==
    /\ entOp # "none"
    /\ ent' = IF entRet.kind = "entity" THEN entRet.ent ELSE ent
    /\ entOp' = "none"
    /\ entFields' = NoEntity
    /\ entArg' = NoEntArg
    /\ entRet' = NoERet
    /\ UNCHANGED <<now, nonEntVars>>

\* The clock advances between two calls.
Tick ==
    /\ entOp = "none"
    /\ now < MaxNow
    /\ now' = now + 1
    /\ UNCHANGED <<ent, entOp, entFields, entArg, entRet, nonEntVars>>

NextEntity ==
    \/ EntConstruct
    \/ EntCreateNew
    \/ EntUpdateAmount
    \/ EntUpdateDescription
    \/ EntUpdateTransactionDate
    \/ EntKeep
    \/ Tick

SpecEntity == InitEntity /\ [][NextEntity]_vars

-----------------------------------------------------------------------------
(* Properties of Commission and Transaction (checked under SpecEntity)     *)

\* The instances that exist: the one the caller holds and the one returned.
Instances ==
    (IF ent # NoEntity THEN {ent} ELSE {})
        \cup (IF entRet.kind = "entity" THEN {entRet.ent} ELSE {})

\* C10: every Commission or Transaction that exists after construction,
\* create_new or any sequence of updates has a non-empty id and partner_id, a
\* positive amount, a transaction_date not after today and inside the window
\* of its financial_year, a description of at most 500 characters, and
\* updated_at >= created_at when updated_at is present.
C10_EntityInvariants ==
    \A e \in Instances :
        /\ Len(e.id) > 0
        /\ Len(e.partner_id) > 0
        /\ e.amount.amount.coef > 0
        /\ DateLE(e.transaction_date, Today(now))
        /\ InWindow(e.financial_year, e.transaction_date)
        /\ ~e.description.none => DescLen(e.description) <= 500
        /\ e.updated_at # NoTime => e.updated_at >= e.created_at

UpdateOps == {"update_amount", "update_description", "update_transaction_date"}

\* The pending update asks for a value the invariants exclude: an amount that
\* is not positive, a description of more than 500 characters once stored, or
\* a transaction date after today or outside every financial year.
UpdateWouldViolate ==
    \/ entOp = "update_amount" /\ entArg.amount.amount.coef <= 0
    \/ entOp = "update_description"
         /\ ~entArg.description.none /\ entArg.description.body > 500
    \/ entOp = "update_transaction_date"
         /\ (DateGT(entArg.date, Today(now)) \/ ~FromDateDomain(entArg.date))

\* C11: an update that would violate an invariant raises, a successful update
\* returns an instance, and in both cases the step that makes the call leaves
\* every field of the original instance as it was.
C11_UpdateLeavesOriginalUnchanged ==
    [][entOp = "none" /\ entOp' \in UpdateOps =>
          /\ ent' = ent
          /\ entRet'.kind \in {"raise", "entity"}
          /\ UpdateWouldViolate' => entRet'.kind = "raise" /\ entRet'.err = "ValueError"
          /\ ~UpdateWouldViolate' => entRet'.kind = "entity" /\ entRet'.ent.id = ent.id]_vars

\* A rejected update_amount, with the original still held.
C11_Witness ==
    /\ entOp = "update_amount"
    /\ UpdateWouldViolate
    /\ entRet.kind = "raise"
    /\ ent # NoEntity
    /\ ent.amount.amount.coef > 0

\* C12 as stated: update_transaction_date(new_date) with new_date <= today
\* returns an instance with transaction_date = new_date, financial_year =
\* from_date(new_date), the original's id, partner_id, amount, description and
\* created_at, and updated_at = now; update_amount and update_description
\* leave transaction_date and financial_year as the original's.
C12_UpdateDateForEveryPastDate ==
    /\ entOp = "update_transaction_date" /\ DateLE(entArg.date, Today(now)) =>
          /\ entRet.kind = "entity"
          /\ entRet.ent = [ent EXCEPT !.transaction_date = entArg.date,
                                      !.financial_year = from_date(entArg.date).fy,
                                      !.updated_at = now]
    /\ entOp \in {"update_amount", "update_description"} /\ entRet.kind = "entity" =>
          /\ entRet.ent.transaction_date = ent.transaction_date
          /\ entRet.ent.financial_year = ent.financial_year

\* C12 as amended: the same for every new_date <= today that lies between
\* 1 April 1900 and 31 March 2101; for an earlier new_date the call raises
\* ValueError.
C12_UpdateDateWithinRange ==
    /\ entOp = "update_transaction_date" /\ DateLE(entArg.date, Today(now)) =>
          IF FromDateDomain(entArg.date)
          THEN /\ entRet.kind = "entity"
               /\ entRet.ent = [ent EXCEPT !.transaction_date = entArg.date,
                                           !.financial_year = ExpectedYears(entArg.date),
                                           !.updated_at = now]
               /\ entRet.ent.financial_year = from_date(entArg.date).fy
          ELSE entRet = ERaise("ValueError")
    /\ entOp \in {"update_amount", "update_description"} /\ entRet.kind = "entity" =>
          /\ entRet.ent.transaction_date = ent.transaction_date
          /\ entRet.ent.financial_year = ent.financial_year

\* A date moved into another financial year.
C12_Witness ==
    /\ entOp = "update_transaction_date"
    /\ entRet.kind = "entity"
    /\ entRet.ent.transaction_date = entArg.date
    /\ entRet.ent.financial_year # ent.financial_year
    /\ entRet.ent.updated_at = now
    /\ now > ent.created_at

-----------------------------------------------------------------------------
(* AnalyticsMapper                                                         *)
(*                                                                         *)
(* A float that holds an amount or a sum of amounts is carried as its      *)
(* number of hundredths; a float that results from a division is carried   *)
(* as the exact fraction num / den.  The rounding error of binary floating *)
(* point is not part of the model.                                         *)

MONTH_NAMES ==
    <<"January", "February", "March", "April", "May", "June", "July",
      "August", "September", "October", "November", "December">>

\* Commission.get_month_name
get_month_name(self) == MONTH_NAMES[self.transaction_date.month]

\* Commission.get_year
get_year(self) == self.transaction_date.year

\* Money.to_float, in hundredths.
to_float(self) == self.amount.coef

\* ord() of the characters of a month key.
Ord(ch) == IF ch = "-" THEN 45 ELSE 48 + DigitVal(ch)

RECURSIVE StrLT(_, _)
\* str.__lt__: lexicographic comparison.
StrLT(a, b) ==
    IF Len(b) = 0 THEN FALSE
    ELSE IF Len(a) = 0 THEN TRUE
    ELSE IF a[1] # b[1] THEN Ord(a[1]) < Ord(b[1])
    ELSE StrLT(Tail(a), Tail(b))

RECURSIVE SortedKeys(_)
\* sorted(keys) for a set of distinct strings.
SortedKeys(S) ==
    IF S = {} THEN <<>>
    ELSE LET m == CHOOSE x \in S : \A y \in S \ {x} : StrLT(x, y)
         IN <<m>> \o SortedKeys(S \ {m})

\* Mutant of MonthKey: the month is written before the year.
MonthKey_MonthFirst(commission) ==
    TwoDigits(commission.transaction_date.month) \o <<"-">>
        \o FourDigits(get_year(commission))

\* month_key = f"{commission.get_year()}-{commission.transaction_date.month:02d}"
MonthKey(commission) ==
    FourDigits(get_year(commission)) \o <<"-">>
        \o TwoDigits(commission.transaction_date.month)

RECURSIVE MonthlyData(_)
\* The dictionary monthly_data after the loop over the commissions.
MonthlyData(cs) ==
    IF Len(cs) = 0 THEN <<>>
    ELSE LET before == MonthlyData(SubSeq(cs, 1, Len(cs) - 1))
             commission == cs[Len(cs)]
             month_key == MonthKey(commission)
             entry == IF month_key \in DOMAIN before THEN before[month_key]
                      ELSE [month |-> get_month_name(commission),
                            year |-> get_year(commission),
                            total_amount |-> 0, count |-> 0]
         IN [k \in (DOMAIN before) \cup {month_key} |->
                IF k = month_key
                THEN [entry EXCEPT !.total_amount = @ + to_float(commission.amount),
                                   !.count = @ + 1]
                ELSE before[k]]

\* Mutant of create_monthly_commission_data: growth is measured against the
\* first bucket of the series.
create_monthly_commission_data_FromFirst(cs, growth) ==
    LET monthly_data == MonthlyData(cs)
        sorted_keys == SortedKeys(DOMAIN monthly_data)
    IN [i \in 1..Len(sorted_keys) |->
          LET data == monthly_data[sorted_keys[i]]
              prev_total == monthly_data[sorted_keys[1]].total_amount
          IN [month |-> data.month, year |-> data.year,
              total_amount |-> data.total_amount, count |-> data.count,
              growth_percentage |->
                  IF growth /\ i > 1 /\ prev_total > 0
                  THEN Frac((data.total_amount - prev_total) * 100, prev_total)
                  ELSE NoFloat]]

create_monthly_commission_data(cs, growth) ==
    LET monthly_data == MonthlyData(cs)
        sorted_keys == SortedKeys(DOMAIN monthly_data)
    IN [i \in 1..Len(sorted_keys) |->
          LET data == monthly_data[sorted_keys[i]]
              prev_total == IF i > 1
                            THEN monthly_data[sorted_keys[i - 1]].total_amount
                            ELSE 0
          IN [month |-> data.month, year |-> data.year,
              total_amount |-> data.total_amount, count |-> data.count,
              growth_percentage |->
                  IF growth /\ i > 1 /\ prev_total > 0
                  THEN Frac((data.total_amount - prev_total) * 100, prev_total)
                  ELSE NoFloat]]

\* partner_map = {p.id: p for p in partners}: a later partner replaces an
\* earlier one with the same id.
PartnerMap(ps) ==
    [id \in {ps[i].id : i \in DOMAIN ps} |->
        ps[CHOOSE i \in DOMAIN ps :
              /\ ps[i].id = id
              /\ \A j \in DOMAIN ps : ps[j].id = id => j <= i]]

RECURSIVE PartnerData(_, _)
\* The dictionary partner_data after the loop, as the list of its entries in
\* insertion order.
PartnerData(cs, partner_map) ==
    IF Len(cs) = 0 THEN <<>>
    ELSE LET before == PartnerData(SubSeq(cs, 1, Len(cs) - 1), partner_map)
             commission == cs[Len(cs)]
             partner_id == commission.partner_id
             known == partner_id \in DOMAIN partner_map
             started ==
                 IF \E i \in DOMAIN before : before[i].partner_id = partner_id
                 THEN before
                 ELSE Append(before,
                        [partner_id |-> partner_id,
                         partner_name |-> IF known THEN partner_map[partner_id].name
                                          ELSE "Unknown",
                         entity_type |-> IF known
                                         THEN partner_map[partner_id].entity_type
                                         ELSE "Unknown",
                         total_amount |-> 0, count |-> 0])
         IN [i \in DOMAIN started |->
                IF started[i].partner_id = partner_id
                THEN [started[i] EXCEPT
                        !.total_amount = @ + to_float(commission.amount),
                        !.count = @ + 1]
                ELSE started[i]]

RECURSIVE SortByTotalDesc(_)
\* list.sort(key=total_amount, reverse=True): stable, largest total first.
SortByTotalDesc(rows) ==
    IF Len(rows) = 0 THEN <<>>
    ELSE LET sorted == SortByTotalDesc(SubSeq(rows, 1, Len(rows) - 1))
             x == rows[Len(rows)]
             k == Cardinality({i \in DOMAIN sorted :
                                  sorted[i].total_amount >= x.total_amount})
         IN SubSeq(sorted, 1, k) \o <<x>> \o SubSeq(sorted, k + 1, Len(sorted))

RECURSIVE SumFloats(_)
\* sum(c.amount.to_float() for c in commissions)
SumFloats(cs) ==
    IF Len(cs) = 0 THEN 0
    ELSE SumFloats(SubSeq(cs, 1, Len(cs) - 1)) + to_float(cs[Len(cs)].amount)

\* Mutant of create_partner_commission_data: the share is not multiplied by 100.
create_partner_commission_data_Share(cs, ps) ==
    LET total_amount == SumFloats(cs)
        partner_data == PartnerData(cs, PartnerMap(ps))
    IN SortByTotalDesc(
         [i \in DOMAIN partner_data |->
            [partner_id |-> partner_data[i].partner_id,
             partner_name |-> partner_data[i].partner_name,
             entity_type |-> partner_data[i].entity_type,
             total_amount |-> partner_data[i].total_amount,
             count |-> partner_data[i].count,
             percentage_of_total |->
                 IF total_amount > 0
                 THEN Frac(partner_data[i].total_amount, total_amount)
                 ELSE Frac(0, 1)]])

create_partner_commission_data(cs, ps) ==
    LET total_amount == SumFloats(cs)
        partner_data == PartnerData(cs, PartnerMap(ps))
    IN SortByTotalDesc(
         [i \in DOMAIN partner_data |->
            [partner_id |-> partner_data[i].partner_id,
             partner_name |-> partner_data[i].partner_name,
             entity_type |-> partner_data[i].entity_type,
             total_amount |-> partner_data[i].total_amount,
             count |-> partner_data[i].count,
             percentage_of_total |->
                 IF total_amount > 0
                 THEN Frac(partner_data[i].total_amount * 100, total_amount)
                 ELSE Frac(0, 1)]])

-----------------------------------------------------------------------------
(* Inputs of the aggregations                                              *)

\* A stored commission: valid by construction, dated in the past.
StoredCommission(n, partner_id, cents, d) ==
    [cls |-> "Commission", id |-> <<"c", DigitChars[n + 1]>>,
     partner_id |-> partner_id,
     amount |-> [amount |-> Dec(cents, CENT_EXP), currency |-> INR],
     transaction_date |-> d, financial_year |-> from_date(d).fy,
     description |-> None, created_at |-> 0, updated_at |-> NoTime]

P1 == <<"P", "1">>

P2 == <<"P", "2">>

\* 1.00 and 1.50
AmountsInCents == {100, 150}

MapDates ==
    {Date(EpochYear - 1, 12, 1), Date(EpochYear, 1, 1), Date(EpochYear, 2, 1)}

MapItems == {P1, P2} \X AmountsInCents \X MapDates

\* The lists of at most MaxCommissions commissions built from a set of items.
CommissionLists(items) ==
    UNION {
      {[i \in 1..n |-> StoredCommission(i, t[i][1], t[i][2], t[i][3])] :
          t \in [1..n -> items]} : n \in 0..MaxCommissions}

PartnerLists ==
    { <<>>,
      <<[id |-> P1, name |-> "Alpha", entity_type |-> "Mutual Funds"]>>,
      <<[id |-> P1, name |-> "Alpha", entity_type |-> "Mutual Funds"],
        [id |-> P2, name |-> "Beta", entity_type |-> "Life Insurance"]>> }

-----------------------------------------------------------------------------
(* Specification SpecMapper: AnalyticsMapper is given a list of            *)
(* commissions and asked for the monthly or the partner aggregation.       *)

InitMapper ==
    /\ RepIdle
    /\ SvcIdle
    /\ CtrIdle
    /\ DashIdle
    /\ FYIdle
    /\ MoneyIdle
    /\ EntIdle
    /\ commissions \in CommissionLists(MapItems)
    /\ partners = <<>>
    /\ include_growth = FALSE
    /\ mapOp = "none"
    /\ mapMonthly = <<>>
    /\ mapPartner = <<>>

MapMonthly ==
    /\ mapOp = "none"
    /\ \E growth \in BOOLEAN :
          /\ include_growth' = growth
          /\ mapMonthly' = create_monthly_commission_data(commissions, growth)
    /\ mapOp' = "monthly"
    /\ UNCHANGED <<commissions, partners, mapPartner, nonMapVars>>

MapPartner ==
    /\ mapOp = "none"
    /\ \E ps \in PartnerLists :
          /\ partners' = ps
          /\ mapPartner' = create_partner_commission_data(commissions, ps)
    /\ mapOp' = "partner"
    /\ UNCHANGED <<commissions, include_growth, mapMonthly, nonMapVars>>

NextMapper ==
    \/ MapMonthly
    \/ MapPartner

SpecMapper == InitMapper /\ [][NextMapper]_vars

-----------------------------------------------------------------------------
(* Properties of AnalyticsMapper (checked under SpecMapper)                *)

RECURSIVE SumOver(_, _)
\* The sum of f over a finite set.
SumOver(f, S) ==
    IF S = {} THEN 0
    ELSE LET x == CHOOSE y \in S : TRUE IN f[x] + SumOver(f, S \ {x})

\* The amount of each input commission, in hundredths.
InputCents == [i \in DOMAIN commissions |-> commissions[i].amount.amount.coef]

\* The input commissions dated in the month of a bucket.
DatedIn(row) ==
    {i \in DOMAIN commissions :
        /\ commissions[i].transaction_date.year = row.year
        /\ MONTH_NAMES[commissions[i].transaction_date.month] = row.month}

\* datetime.strptime(month, "%B").month
MonthNumber(name) == CHOOSE m \in 1..12 : MONTH_NAMES[m] = name

\* C13: create_monthly_commission_data returns one bucket per distinct
\* (year, month) of the input, in ascending chronological order; each bucket's
\* total and count are the sum and the number of the commissions dated in that
\* month; the totals add up to the sum of all amounts and the counts to the
\* number of commissions.
C13_MonthlyBuckets ==
    mapOp = "monthly" =>
        LET R == mapMonthly
            YM == {<<commissions[i].transaction_date.year,
                     commissions[i].transaction_date.month>> : i \in DOMAIN commissions}
        IN /\ Len(R) = Cardinality(YM)
           /\ {<<R[i].year, MonthNumber(R[i].month)>> : i \in DOMAIN R} = YM
           /\ \A i, j \in DOMAIN R :
                 i < j => \/ R[i].year < R[j].year
                          \/ /\ R[i].year = R[j].year
                             /\ MonthNumber(R[i].month) < MonthNumber(R[j].month)
           /\ \A i \in DOMAIN R :
                 /\ R[i].total_amount = SumOver(InputCents, DatedIn(R[i]))
                 /\ R[i].count = Cardinality(DatedIn(R[i]))
           /\ SumOver([i \in DOMAIN R |-> R[i].total_amount], DOMAIN R)
                 = SumOver(InputCents, DOMAIN commissions)
           /\ SumOver([i \in DOMAIN R |-> R[i].count], DOMAIN R) = Len(commissions)

\* Three months given out of order, one of them twice.
C13_Witness ==
    /\ mapOp = "monthly"
    /\ Len(commissions) = 3
    /\ Len(mapMonthly) = 2
    /\ commissions[1].transaction_date.year > commissions[2].transaction_date.year
    /\ mapMonthly[1].count = 1
    /\ mapMonthly[2].count = 2

\* C14: with growth requested, the first bucket has no growth value and every
\* later bucket has (curr - prev) / prev * 100 against the bucket before it
\* when prev > 0 and no value otherwise; with growth not requested no bucket
\* has a growth value.
C14_GrowthAgainstPreviousBucket ==
    mapOp = "monthly" =>
        \A i \in DOMAIN mapMonthly :
            LET g == mapMonthly[i].growth_percentage
                curr == mapMonthly[i].total_amount
                prev == IF i > 1 THEN mapMonthly[i - 1].total_amount ELSE 0
            IN IF include_growth /\ i > 1 /\ prev > 0
               THEN /\ ~g.none
                    /\ g.den > 0
                    /\ g.num * prev = (curr - prev) * 100 * g.den
               ELSE g = NoFloat

\* The example, in hundredths: January 1.00, February 1.50 gives February +50
\* and January none.
C14_Witness ==
    /\ mapOp = "monthly"
    /\ include_growth
    /\ Len(mapMonthly) = 2
    /\ mapMonthly[1].month = "January" /\ mapMonthly[1].total_amount = 100
    /\ mapMonthly[2].month = "February" /\ mapMonthly[2].total_amount = 150
    /\ mapMonthly[1].growth_percentage.none
    /\ mapMonthly[2].growth_percentage.num = 50 * mapMonthly[2].growth_percentage.den

\* The input commissions of the partner of a row.
OfPartner(row) == {i \in DOMAIN commissions : commissions[i].partner_id = row.partner_id}

\* C20: for a non-empty commission list the percentage_of_total values sum to
\* 100, every commission is counted in exactly one partner's total, each
\* percentage is the partner's total / grand total * 100, and the percentage
\* is 0 when the grand total is 0.
C20_PartnerPercentagesSumTo100 ==
    mapOp = "partner" =>
        LET R == mapPartner
            grand == SumOver(InputCents, DOMAIN commissions)
        IN /\ \A i, j \in DOMAIN R : R[i].partner_id = R[j].partner_id => i = j
           /\ {R[i].partner_id : i \in DOMAIN R}
                 = {commissions[i].partner_id : i \in DOMAIN commissions}
           /\ \A i \in DOMAIN R :
                 /\ R[i].total_amount = SumOver(InputCents, OfPartner(R[i]))
                 /\ R[i].count = Cardinality(OfPartner(R[i]))
                 /\ R[i].percentage_of_total.den > 0
                 /\ IF grand > 0
                    THEN R[i].percentage_of_total.num * grand
                            = R[i].total_amount * 100 * R[i].percentage_of_total.den
                    ELSE R[i].percentage_of_total.num = 0
           /\ SumOver([i \in DOMAIN R |-> R[i].count], DOMAIN R) = Len(commissions)
           /\ Len(commissions) > 0 =>
                 \* all percentages have the grand total as denominator
                 /\ \A i \in DOMAIN R : R[i].percentage_of_total.den = grand
                 /\ SumOver([i \in DOMAIN R |-> R[i].percentage_of_total.num], DOMAIN R)
                       = 100 * grand

\* Two partners, one of them with two commissions.
C20_Witness ==
    /\ mapOp = "partner"
    /\ Len(commissions) = 3
    /\ Len(mapPartner) = 2
    /\ mapPartner[1].count = 2
    /\ mapPartner[1].percentage_of_total.num > 0
    /\ mapPartner[2].percentage_of_total.num > 0
    /\ mapPartner[2].partner_name = "Unknown"

-----------------------------------------------------------------------------
(* The commission repository, CommissionService and DashboardService       *)
(*                                                                         *)
(* The repository holds the stored commissions; each is kept under the     *)
(* first day of its month.  ServiceError and FinancialYearNotFound are not *)
(* defined in the service modules, so every "raise ServiceError(...)",     *)
(* "raise FinancialYearNotFound(...)" and "except FinancialYearNotFound:"  *)
(* that is executed raises NameError.                                      *)

DRaise(e) == [NoDRet EXCEPT !.kind = "raise", !.err = e]

\* The outcome of a CommissionService query: a list, a float or an exception.
SRaise(e) == [kind |-> "raise", err |-> e, rows |-> <<>>, total |-> 0]

SRows(rows) == [kind |-> "rows", err |-> "", rows |-> rows, total |-> 0]

STotal(x) == [kind |-> "total", err |-> "", rows |-> <<>>, total |-> x]

RECURSIVE Filter(_, _)
\* The rows of a query, in the order of the table; keep[i] tells whether row i
\* is selected.
Filter(rows, keep) ==
    IF Len(rows) = 0 THEN <<>>
    ELSE LET rest == Filter(SubSeq(rows, 1, Len(rows) - 1),
                            SubSeq(keep, 1, Len(rows) - 1))
         IN IF keep[Len(rows)] THEN Append(rest, rows[Len(rows)]) ELSE rest

RECURSIVE OrderByMonthDesc(_)
\* .order("month", desc=True)
OrderByMonthDesc(rows) ==
    IF Len(rows) = 0 THEN <<>>
    ELSE LET sorted == OrderByMonthDesc(SubSeq(rows, 1, Len(rows) - 1))
             x == rows[Len(rows)]
             k == Cardinality({i \in DOMAIN sorted :
                                  DateLE(x.transaction_date, sorted[i].transaction_date)})
         IN SubSeq(sorted, 1, k) \o <<x>> \o SubSeq(sorted, k + 1, Len(sorted))

\* SupabaseCommissionRepository.get_by_financial_year
get_by_financial_year(st, financial_year) ==
    LET start_date == get_start_date(financial_year)
        end_date == get_end_date(financial_year)
    IN OrderByMonthDesc(
         Filter(st, [i \in DOMAIN st |->
                       /\ DateLE(start_date, st[i].transaction_date)
                       /\ DateLE(st[i].transaction_date, end_date)]))

\* SupabaseCommissionRepository.get_by_month_year
get_by_month_year(st, month, year) ==
    LET start_date == Date(year, month, 1)
        end_date == IF month = 12 THEN Date(year + 1, 1, 1) ELSE Date(year, month + 1, 1)
    IN OrderByMonthDesc(
         Filter(st, [i \in DOMAIN st |->
                       /\ DateLE(start_date, st[i].transaction_date)
                       /\ st[i].transaction_date # end_date
                       /\ DateLE(st[i].transaction_date, end_date)]))

\* SupabaseCommissionRepository.get_total_amount_by_financial_year
get_total_amount_by_financial_year(st, financial_year) ==
    SumFloats(get_by_financial_year(st, financial_year))

\* CommissionService.get_commissions_by_financial_year
get_commissions_by_financial_year(st, financial_year) ==
    LET fy_ == from_string(financial_year)
    IN IF fy_.kind = "raise" THEN SRaise("NameError")
       ELSE SRows(get_by_financial_year(st, fy_.fy))

\* CommissionService.get_total_commissions
get_total_commissions(st) == STotal(SumFloats(st))

\* CommissionService.get_total_commissions_by_month
get_total_commissions_by_month(st, month, year) ==
    STotal(SumFloats(get_by_month_year(st, MonthNumber(month), year)))

\* CommissionService.get_total_commissions_by_financial_year
get_total_commissions_by_financial_year(st, financial_year) ==
    LET fy_ == from_string(financial_year)
    IN IF fy_.kind = "raise" THEN SRaise("NameError")
       ELSE STotal(get_total_amount_by_financial_year(st, fy_.fy))

\* utils.date_utils.parse_financial_year, for a four-digit year.
parse_financial_year(date_obj) ==
    IF date_obj.month >= 4
    THEN <<"F", "Y">> \o TwoDigits(date_obj.year % 100) \o <<"-">>
            \o TwoDigits((date_obj.year + 1) % 100)
    ELSE <<"F", "Y">> \o TwoDigits((date_obj.year - 1) % 100) \o <<"-">>
            \o TwoDigits(date_obj.year % 100)

\* re.match(r'^FY\d{2}-\d{2}$', s): $ also matches before a final newline.
MatchesFYLabel(s) ==
    /\ Len(s) \in {7, 8}
    /\ s[1] = "F" /\ s[2] = "Y"
    /\ IsDigit(s[3]) /\ IsDigit(s[4])
    /\ s[5] = "-"
    /\ IsDigit(s[6]) /\ IsDigit(s[7])
    /\ Len(s) = 8 => s[8] = "\n"

RECURSIVE SplitFirst(_)
\* s.split("-")[0]
SplitFirst(s) ==
    IF Len(s) = 0 \/ s[1] = "-" THEN <<>> ELSE <<s[1]>> \o SplitFirst(Tail(s))

\* f"{n:02d}" for -9 <= n <= 99.
Format02d(n) == IF n < 0 THEN <<"-", DigitChars[1 - n]>> ELSE TwoDigits(n)

\* The label of the previous financial year as the service derives it.
PreviousLabel(financial_year) ==
    LET start_year == SplitFirst(ReplaceFY(financial_year))
    IN <<"F", "Y">> \o Format02d(ToInt(start_year) - 1) \o <<"-">> \o start_year

\* Mutant of calculate_financial_year_metrics: growth is measured against the
\* current total.
calculate_financial_year_metrics_OverCurrent(st, financial_year) ==
    IF ~MatchesFYLabel(financial_year) THEN DRaise("NameError")
    ELSE LET current == get_commissions_by_financial_year(st, financial_year)
         IN IF current.kind = "raise" THEN DRaise("NameError")
            ELSE LET current_total == SumFloats(current.rows)
                     prev == get_commissions_by_financial_year(
                                 st, PreviousLabel(financial_year))
                     prev_total == IF prev.kind = "raise" THEN 0
                                   ELSE SumFloats(prev.rows)
                 IN [NoDRet EXCEPT
                       !.kind = "metrics",
                       !.metrics =
                          [selectedFY |-> financial_year,
                           currentYearTotal |-> current_total,
                           yoyGrowth |->
                              IF prev_total > 0 /\ current_total > 0
                              THEN Frac((current_total - prev_total) * 100,
                                        current_total)
                              ELSE Frac(0, 1),
                           commissionCount |-> Len(current.rows)]]

\* DashboardService.calculate_financial_year_metrics
calculate_financial_year_metrics(st, financial_year) ==
    IF ~MatchesFYLabel(financial_year) THEN DRaise("NameError")
    ELSE LET current == get_commissions_by_financial_year(st, financial_year)
         IN IF current.kind = "raise" THEN DRaise("NameError")
            ELSE LET current_total == SumFloats(current.rows)
                     prev == get_commissions_by_financial_year(
                                 st, PreviousLabel(financial_year))
                     prev_total == IF prev.kind = "raise" THEN 0
                                   ELSE SumFloats(prev.rows)
                 IN [NoDRet EXCEPT
                       !.kind = "metrics",
                       !.metrics =
                          [selectedFY |-> financial_year,
                           currentYearTotal |-> current_total,
                           yoyGrowth |->
                              IF prev_total > 0
                              THEN Frac((current_total - prev_total) * 100,
                                        prev_total)
                              ELSE Frac(0, 1),
                           commissionCount |-> Len(current.rows)]]

RECURSIVE QuarterlyData(_)
\* The dictionary quarterly_data after the loop; "raise" when get_quarter raises.
QuarterlyData(cs) ==
    IF Len(cs) = 0 THEN [kind |-> "ok", data |-> [q \in 1..4 |-> 0]]
    ELSE LET before == QuarterlyData(SubSeq(cs, 1, Len(cs) - 1))
             commission == cs[Len(cs)]
             quarter == get_quarter(commission.financial_year,
                                    commission.transaction_date)
         IN IF before.kind = "raise" \/ quarter.kind = "raise"
            THEN [kind |-> "raise", data |-> [q \in 1..4 |-> 0]]
            ELSE [kind |-> "ok",
                  data |-> [before.data EXCEPT
                              ![quarter.n] = @ + to_float(commission.amount)]]

\* Mutant of get_quarterly_breakdown: quarters without commissions are dropped.
get_quarterly_breakdown_NonEmptyOnly(st, financial_year) ==
    IF ~MatchesFYLabel(financial_year) THEN DRaise("NameError")
    ELSE LET found == get_commissions_by_financial_year(st, financial_year)
         IN IF found.kind = "raise" THEN DRaise("NameError")
            ELSE LET quarterly_data == QuarterlyData(found.rows)
                 IN IF quarterly_data.kind = "raise" THEN DRaise("NameError")
                    ELSE [NoDRet EXCEPT
                            !.kind = "quarters",
                            !.quarters =
                               Filter([q \in 1..4 |->
                                         [quarter |-> <<"Q", DigitChars[q + 1]>>,
                                          total |-> quarterly_data.data[q],
                                          financial_year |-> financial_year]],
                                      [q \in 1..4 |-> quarterly_data.data[q] > 0])]

\* DashboardService.get_quarterly_breakdown
get_quarterly_breakdown(st, financial_year) ==
    IF ~MatchesFYLabel(financial_year) THEN DRaise("NameError")
    ELSE LET found == get_commissions_by_financial_year(st, financial_year)
         IN IF found.kind = "raise" THEN DRaise("NameError")
            ELSE LET quarterly_data == QuarterlyData(found.rows)
                 IN IF quarterly_data.kind = "raise" THEN DRaise("NameError")
                    ELSE [NoDRet EXCEPT
                            !.kind = "quarters",
                            !.quarters =
                               [q \in 1..4 |->
                                  [quarter |-> <<"Q", DigitChars[q + 1]>>,
                                   total |-> quarterly_data.data[q],
                                   financial_year |-> financial_year]]]

\* Mutant of get_overview_statistics: with no previous-month total the growth
\* rate is 0 whatever the current month's total.
get_overview_statistics_ZeroBaseline(st, now_) ==
    LET current_month == MONTH_NAMES[now_.month]
        current_year == now_.year
        current_fy == parse_financial_year(now_)
        prev_month_date == Date(now_.year,
                                IF now_.month > 1 THEN now_.month - 1 ELSE 12, 1)
        prev_month == MONTH_NAMES[prev_month_date.month]
        prev_year == prev_month_date.year
        total_commission == get_total_commissions(st)
        current_month_commission ==
            get_total_commissions_by_month(st, current_month, current_year)
        prev_month_commission ==
            get_total_commissions_by_month(st, prev_month, prev_year)
        fy_commission == get_total_commissions_by_financial_year(st, current_fy)
        growth_rate ==
            IF prev_month_commission.total > 0
            THEN Frac((current_month_commission.total - prev_month_commission.total)
                         * 100, prev_month_commission.total)
            ELSE Frac(0, 1)
    IN IF fy_commission.kind = "raise" THEN DRaise("NameError")
       ELSE [NoDRet EXCEPT
               !.kind = "overview",
               !.overview =
                  [total_commission |-> total_commission.total,
                   current_month |-> current_month,
                   current_month_commission |-> current_month_commission.total,
                   prev_month |-> prev_month,
                   prev_year |-> prev_year,
                   prev_month_commission |-> prev_month_commission.total,
                   current_fy |-> current_fy,
                   fy_commission |-> fy_commission.total,
                   growth_rate |-> growth_rate,
                   isPositive |-> growth_rate.num >= 0]]

\* DashboardService.get_overview_statistics; the record holds the values shown
\* and the locals prev_year and prev_month_commission.
get_overview_statistics(st, now_) ==
    LET current_month == MONTH_NAMES[now_.month]
        current_year == now_.year
        current_fy == parse_financial_year(now_)
        prev_month_date == Date(now_.year,
                                IF now_.month > 1 THEN now_.month - 1 ELSE 12, 1)
        prev_month == MONTH_NAMES[prev_month_date.month]
        prev_year == prev_month_date.year
        total_commission == get_total_commissions(st)
        current_month_commission ==
            get_total_commissions_by_month(st, current_month, current_year)
        prev_month_commission ==
            get_total_commissions_by_month(st, prev_month, prev_year)
        fy_commission == get_total_commissions_by_financial_year(st, current_fy)
        growth_rate ==
            IF prev_month_commission.total > 0
            THEN Frac((current_month_commission.total - prev_month_commission.total)
                         * 100, prev_month_commission.total)
            ELSE IF current_month_commission.total > 0 THEN Frac(100, 1)
            ELSE Frac(0, 1)
    IN IF fy_commission.kind = "raise" THEN DRaise("NameError")
       ELSE [NoDRet EXCEPT
               !.kind = "overview",
               !.overview =
                  [total_commission |-> total_commission.total,
                   current_month |-> current_month,
                   current_month_commission |-> current_month_commission.total,
                   prev_month |-> prev_month,
                   prev_year |-> prev_year,
                   prev_month_commission |-> prev_month_commission.total,
                   current_fy |-> current_fy,
                   fy_commission |-> fy_commission.total,
                   growth_rate |-> growth_rate,
                   isPositive |-> growth_rate.num >= 0]]

-----------------------------------------------------------------------------
(* Inputs of the dashboard operations                                      *)

\* 500.00 and 1000.00
DashAmounts == {50000, 100000}

DashDates ==
    { Date(EpochYear - 1, 12, 1), Date(EpochYear, 5, 1), Date(EpochYear, 11, 1),
      Date(EpochYear, 12, 1), Date(EpochYear + 1, 1, 1) }

DashItems == {P1} \X DashAmounts \X DashDates

DashNows == {Date(EpochYear, 12, 20), Date(EpochYear + 1, 1, 15)}

FYLabel(y) ==
    <<"F", "Y">> \o TwoDigits(y % 100) \o <<"-">> \o TwoDigits((y + 1) % 100)

DashLabels ==
    { FYLabel(EpochYear - 1), FYLabel(EpochYear), FYLabel(EpochYear + 1),
      FYLabel(CENTURY_BASE), FYLabel(EpochYear) \o <<"\n">>,
      TwoDigits(EpochYear % 100) \o <<"-">> \o TwoDigits((EpochYear + 1) % 100),
      <<"F", "Y">> \o TwoDigits(EpochYear % 100) \o <<"-">>
          \o TwoDigits((EpochYear + 2) % 100) }

\* The exception classes the route handlers tell apart: FinancialYearError is
\* a ValidationError, which is a DomainException; NameError and pydantic's
\* ValidationError (a ValueError) are neither.
IsFinancialYearError(e) == e = "FinancialYearError"

IsDomainException(e) ==
    e \in {"FinancialYearError", "ValidationError", "NotFoundError", "DomainException"}

\* The status of the response for an exception caught by a route handler.
StatusOf(e) ==
    IF IsFinancialYearError(e) THEN 404
    ELSE IF IsDomainException(e) THEN 400
    ELSE 500

\* FinancialYearPathParam(financial_year=...): the validator raises
\* ValueError, which pydantic reports as its own ValidationError.
FinancialYearPathParam(financial_year) ==
    IF ~MatchesFYLabel(financial_year) THEN DRaise("pydantic.ValidationError")
    ELSE [NoDRet EXCEPT !.kind = "param"]

\* api.dashboard.get_fy_key_metrics
get_fy_key_metrics(st, financial_year) ==
    LET fy_param == FinancialYearPathParam(financial_year)
    IN IF fy_param.kind = "raise"
       THEN [fy_param EXCEPT !.kind = "response", !.status = StatusOf(fy_param.err)]
       ELSE LET metrics == calculate_financial_year_metrics(st, financial_year)
            IN IF metrics.kind = "raise"
               THEN [metrics EXCEPT !.kind = "response", !.status = StatusOf(metrics.err)]
               ELSE [metrics EXCEPT !.kind = "response", !.status = 200]

-----------------------------------------------------------------------------
(* Specification SpecDashboard: the repository holds some commissions, all *)
(* dated on or before today, and one DashboardService operation is called. *)
(* The tables drawn list their rows in chronological order; the queries    *)
(* order their rows themselves.                                            *)

InitDashboard ==
    /\ RepIdle
    /\ SvcIdle
    /\ CtrIdle
    /\ FYIdle
    /\ MoneyIdle
    /\ EntIdle
    /\ MapIdle
    /\ store \in CommissionLists(DashItems)
    /\ dashNow \in DashNows
    /\ \A i \in DOMAIN store : DateLE(store[i].transaction_date, dashNow)
    /\ \A i, j \in DOMAIN store :
          i < j => DateLE(store[i].transaction_date, store[j].transaction_date)
    /\ dashOp = "none"
    /\ dashArg = <<>>
    /\ dashRet = NoDRet

CalculateFinancialYearMetrics ==
    /\ dashOp = "none"
    /\ \E financial_year \in DashLabels :
          /\ dashArg' = financial_year
          /\ dashRet' = calculate_financial_year_metrics(store, financial_year)
    /\ dashOp' = "calculate_financial_year_metrics"
    /\ UNCHANGED <<store, dashNow, nonDashVars>>

GetQuarterlyBreakdown ==
    /\ dashOp = "none"
    /\ \E financial_year \in DashLabels :
          /\ dashArg' = financial_year
          /\ dashRet' = get_quarterly_breakdown(store, financial_year)
    /\ dashOp' = "get_quarterly_breakdown"
    /\ UNCHANGED <<store, dashNow, nonDashVars>>

GetOverviewStatistics ==
    /\ dashOp = "none"
    /\ dashRet' = get_overview_statistics(store, dashNow)
    /\ dashOp' = "get_overview_statistics"
    /\ UNCHANGED <<store, dashNow, dashArg, nonDashVars>>

GetFyKeyMetrics ==
    /\ dashOp = "none"
    /\ \E financial_year \in DashLabels :
          /\ dashArg' = financial_year
          /\ dashRet' = get_fy_key_metrics(store, financial_year)
    /\ dashOp' = "get_fy_key_metrics"
    /\ UNCHANGED <<store, dashNow, nonDashVars>>

NextDashboard ==
    \/ CalculateFinancialYearMetrics
    \/ GetQuarterlyBreakdown
    \/ GetOverviewStatistics
    \/ GetFyKeyMetrics

SpecDashboard == InitDashboard /\ [][NextDashboard]_vars

-----------------------------------------------------------------------------
(* Properties of DashboardService (checked under SpecDashboard)            *)

\* The amount of each stored commission, in hundredths.
StoreCents == [i \in DOMAIN store |-> store[i].amount.amount.coef]

\* The stored commissions dated inside a financial year.
InYear(f) == {i \in DOMAIN store : InWindow(f, store[i].transaction_date)}

\* The stored commissions dated in a calendar month.
InMonth(y, m) ==
    {i \in DOMAIN store :
        store[i].transaction_date.year = y /\ store[i].transaction_date.month = m}

\* The target label is well formed: it has the shape FYab-cd and names a
\* financial year.
WellFormedTarget == MatchesFYLabel(dashArg) /\ from_string(dashArg).kind = "fy"

\* C15: for a well-formed target label calculate_financial_year_metrics
\* returns currentYearTotal = the sum of that year's commissions,
\* commissionCount = their number and yoyGrowth = (curr - prev) / prev * 100
\* when the previous year's total prev > 0 and 0 otherwise; a previous year
\* without records or whose lookup fails counts as 0 and the call returns.
C15_FinancialYearMetrics ==
    dashOp = "calculate_financial_year_metrics" /\ WellFormedTarget =>
        LET f == from_string(dashArg).fy
            curr == SumOver(StoreCents, InYear(f))
            lookup == from_string(PreviousLabel(dashArg))
            prev == IF lookup.kind = "fy"
                    THEN SumOver(StoreCents, InYear(previous_year(f).fy))
                    ELSE 0
        IN /\ dashRet.kind = "metrics"
           /\ dashRet.metrics.selectedFY = dashArg
           /\ dashRet.metrics.currentYearTotal = curr
           /\ dashRet.metrics.commissionCount = Cardinality(InYear(f))
           /\ dashRet.metrics.yoyGrowth =
                 IF prev > 0 THEN Frac((curr - prev) * 100, prev) ELSE Frac(0, 1)

\* The example: current total 1000, previous total 500, growth 100.
C15_Witness ==
    /\ dashOp = "calculate_financial_year_metrics"
    /\ dashArg = FYLabel(EpochYear)
    /\ dashRet.kind = "metrics"
    /\ dashRet.metrics.currentYearTotal = 100000
    /\ dashRet.metrics.commissionCount = 2
    /\ dashRet.metrics.yoyGrowth.den = 50000
    /\ dashRet.metrics.yoyGrowth.num = 100 * dashRet.metrics.yoyGrowth.den

\* C16: for every target label the call accepts, the previous-year label it
\* derives is a well-formed label and names the financial year immediately
\* before the target's.
C16_PreviousLabelNamesPrecedingYear ==
    dashOp = "calculate_financial_year_metrics" /\ dashRet.kind = "metrics" =>
        LET derived == PreviousLabel(dashArg)
        IN /\ MatchesFYLabel(derived)
           /\ from_string(derived).kind = "fy"
           /\ from_string(derived) = previous_year(from_string(dashArg).fy)

\* The stored commissions of a financial year dated in one of its quarters.
InQuarter(f, q) ==
    {i \in InYear(f) : QuarterOfMonth(store[i].transaction_date.month) = q}

\* C17: get_quarterly_breakdown returns four entries Q1, Q2, Q3, Q4 in that
\* order, each total the sum of the year's commissions dated in that quarter
\* (0 when there is none), and the four totals add up to the year's total.
C17_QuarterlyBreakdown ==
    dashOp = "get_quarterly_breakdown" /\ WellFormedTarget =>
        LET f == from_string(dashArg).fy
            R == dashRet.quarters
        IN /\ dashRet.kind = "quarters"
           /\ Len(R) = 4
           /\ \A q \in 1..4 :
                 /\ R[q].quarter = <<"Q", DigitChars[q + 1]>>
                 /\ R[q].total = SumOver(StoreCents, InQuarter(f, q))
                 /\ R[q].financial_year = dashArg
           /\ R[1].total + R[2].total + R[3].total + R[4].total
                 = SumOver(StoreCents, InYear(f))

\* The example: a year with a single December commission of 500.
C17_Witness ==
    /\ dashOp = "get_quarterly_breakdown"
    /\ Len(store) = 1
    /\ store[1].transaction_date.month = 12
    /\ store[1].amount.amount.coef = 50000
    /\ dashRet.kind = "quarters"
    /\ [q \in 1..4 |-> dashRet.quarters[q].total] = <<0, 0, 50000, 0>>

\* C18: the previous-month total of the overview is the total of the calendar
\* month before the current one; for January that is December of the year
\* before.
C18_PreviousMonthRollsBack ==
    dashOp = "get_overview_statistics" /\ dashRet.kind = "overview" =>
        LET y == IF dashNow.month = 1 THEN dashNow.year - 1 ELSE dashNow.year
            m == IF dashNow.month = 1 THEN 12 ELSE dashNow.month - 1
        IN /\ dashRet.overview.prev_month = MONTH_NAMES[m]
           /\ dashRet.overview.prev_month_commission = SumOver(StoreCents, InMonth(y, m))

\* C19: the overview growth rate is (curr - prev) / prev * 100 when prev > 0,
\* 100 when prev = 0 and curr > 0, and 0 when both are 0; the trend is flagged
\* positive exactly when the growth rate is >= 0.
C19_OverviewGrowthRate ==
    dashOp = "get_overview_statistics" /\ dashRet.kind = "overview" =>
        LET curr == SumOver(StoreCents, InMonth(dashNow.year, dashNow.month))
            prev == dashRet.overview.prev_month_commission
            g == dashRet.overview.growth_rate
        IN /\ dashRet.overview.current_month_commission = curr
           /\ g = IF prev > 0 THEN Frac((curr - prev) * 100, prev)
                  ELSE IF curr > 0 THEN Frac(100, 1)
                  ELSE Frac(0, 1)
           /\ dashRet.overview.isPositive <=> (prev > 0 => curr >= prev)

\* A month that fell short of the month before it.
C19_Witness ==
    /\ dashOp = "get_overview_statistics"
    /\ dashRet.kind = "overview"
    /\ dashRet.overview.prev_month_commission = 100000
    /\ dashRet.overview.current_month_commission = 50000
    /\ dashRet.overview.growth_rate.num = -50 * dashRet.overview.growth_rate.den
    /\ ~dashRet.overview.isPositive

\* C25: an aggregation entry point called with a target label that fails the
\* pattern ^FY\d{2}-\d{2}$ fails with a FinancialYearError or NotFoundError
\* kind of error, which the route answers with status 404, and not with a
\* generic failure.
C25_MalformedLabelIsNotFound ==
    (dashOp \in {"calculate_financial_year_metrics", "get_quarterly_breakdown",
                 "get_fy_key_metrics"}
        /\ ~MatchesFYLabel(dashArg)) =>
       IF dashOp = "get_fy_key_metrics"
       THEN dashRet.kind = "response" /\ dashRet.status = 404
       ELSE /\ dashRet.kind = "raise"
            /\ dashRet.err \in {"FinancialYearError", "NotFoundError"}

-----------------------------------------------------------------------------
(* Commission: tax and net amount                                          *)

\* tax_rate < 0 or tax_rate > 1, for the float whose str() is the decimal.
TaxRateOutOfRange(tax_rate) ==
    \/ tax_rate.coef < 0
    \/ Rescale(tax_rate, Min(tax_rate.exp, 0)) > Pow10(0 - Min(tax_rate.exp, 0))

\* Mutant of calculate_tax_amount: the rate is not checked.
calculate_tax_amount_Unchecked(self, tax_rate) ==
    multiply(self.amount, tax_rate)

\* Commission.calculate_tax_amount
calculate_tax_amount(self, tax_rate) ==
    IF TaxRateOutOfRange(tax_rate) THEN MRaise("ValueError")
    ELSE multiply(self.amount, tax_rate)

\* Commission.calculate_net_amount
calculate_net_amount(self, tax_rate) ==
    LET tax_amount == calculate_tax_amount(self, tax_rate)
    IN IF tax_amount.kind = "raise" THEN tax_amount
       ELSE subtract(self.amount, tax_amount.money)

\* The values of str(tax_rate) for some floats: 0, 0.005, 0.18, 0.125, 0.5,
\* 0.333, 1, 1.0, and outside the range 1.01, 1.5, -0.01, -0.5.
TaxRates ==
    { Dec(0, 0), Dec(5, -3), Dec(18, -2), Dec(125, -3), Dec(5, -1), Dec(333, -3),
      Dec(1, 0), Dec(10, -1), Dec(101, -2), Dec(15, -1), Dec(-1, -2), Dec(-5, -1) }

\* The commissions of 0.01 .. MaxCents / 100.
TaxCommissions ==
    { create_new(P1, Money(Dec(c, CENT_EXP), INR).money, Date(EpochYear, 5, 1),
                 None, <<"u", "1">>, 0).ent : c \in 1..MaxCents }

-----------------------------------------------------------------------------
(* Specification SpecTax: a commission is asked for its tax amount or its  *)
(* net amount at some rate.                                                *)

InitTax ==
    /\ RepIdle
    /\ SvcIdle
    /\ CtrIdle
    /\ DashIdle
    /\ MapIdle
    /\ FYIdle
    /\ now = 0
    /\ ent \in TaxCommissions
    /\ entOp = "none"
    /\ entFields = NoEntity
    /\ entArg = NoEntArg
    /\ entRet = NoERet
    /\ mSelf = NoMoney
    /\ mOther = NoMoney
    /\ mOp = "none"
    /\ mArgAmount = NoDec
    /\ mArgCur = <<>>
    /\ mFactor \in TaxRates
    /\ mRet = NoMRet

CalculateTaxAmount ==
    /\ mOp = "none"
    /\ mRet' = calculate_tax_amount(ent, mFactor)
    /\ mOp' = "calculate_tax_amount"
    /\ UNCHANGED <<mSelf, mOther, mArgAmount, mArgCur, mFactor, nonMoneyVars>>

CalculateNetAmount ==
    /\ mOp = "none"
    /\ mRet' = calculate_net_amount(ent, mFactor)
    /\ mOp' = "calculate_net_amount"
    /\ UNCHANGED <<mSelf, mOther, mArgAmount, mArgCur, mFactor, nonMoneyVars>>

NextTax ==
    \/ CalculateTaxAmount
    \/ CalculateNetAmount

SpecTax == InitTax /\ [][NextTax]_vars

\* 0 <= tax_rate <= 1
TaxRateInRange ==
    /\ mFactor.coef >= 0
    /\ mFactor.coef <= Pow10(0 - mFactor.exp)

\* amount * tax_rate in hundredths, rounded to the nearest with ties up.
ExpectedTaxCents ==
    LET num == ent.amount.amount.coef * mFactor.coef
        den == Pow10(0 - mFactor.exp)
    IN (2 * num + den) \div (2 * den)

\* C26: for a tax_rate in [0, 1] calculate_tax_amount returns
\* amount * tax_rate rounded half-up to two decimals and calculate_net_amount
\* returns the amount less that tax, so that tax + net is the amount exactly;
\* a tax_rate below 0 or above 1 is rejected by both.
C26_TaxAndNetAmount ==
    /\ (mOp \in {"calculate_tax_amount", "calculate_net_amount"} /\ ~TaxRateInRange)
          => mRet = MRaise("ValueError")
    /\ (mOp = "calculate_tax_amount" /\ TaxRateInRange)
          => /\ mRet.kind = "money"
             /\ mRet.money.currency = ent.amount.currency
             /\ mRet.money.amount = Dec(ExpectedTaxCents, CENT_EXP)
             /\ IsHalfUp(mRet.money.amount.coef,
                         ent.amount.amount.coef * mFactor.coef,
                         Pow10(0 - mFactor.exp))
    /\ (mOp = "calculate_net_amount" /\ TaxRateInRange)
          => /\ mRet.kind = "money"
             /\ mRet.money.currency = ent.amount.currency
             /\ mRet.money.amount.exp = CENT_EXP
             /\ mRet.money.amount.coef + ExpectedTaxCents = ent.amount.amount.coef

\* 1.00 at the rate 0.005: the tax 0.005 rounds up to 0.01, the net is 0.99.
C26_Witness ==
    /\ mOp = "calculate_net_amount"
    /\ mFactor = Dec(5, -3)
    /\ ent.amount.amount = Dec(100, CENT_EXP)
    /\ mRet.kind = "money"
    /\ mRet.money.amount = Dec(99, CENT_EXP)

-----------------------------------------------------------------------------
(* DashboardService: the reports over partners, months and years           *)

RRaise(e) == [kind |-> "raise", err |-> e, rows |-> <<>>]

RRows(rows) == [kind |-> "rows", err |-> "", rows |-> rows]

RECURSIVE DescOrder_Unstable(_)
\* Mutant of DescOrder: equal keys come out in reverse order.
DescOrder_Unstable(keys) ==
    IF Len(keys) = 0 THEN <<>>
    ELSE LET before == DescOrder_Unstable(SubSeq(keys, 1, Len(keys) - 1))
             x == keys[Len(keys)]
             k == Cardinality({i \in DOMAIN before : keys[before[i]] > x})
         IN SubSeq(before, 1, k) \o <<Len(keys)>> \o SubSeq(before, k + 1, Len(before))

RECURSIVE DescOrder(_)
\* The positions of a list of keys as sort(reverse=True) arranges them:
\* largest key first, equal keys in their original order.
DescOrder(keys) ==
    IF Len(keys) = 0 THEN <<>>
    ELSE LET before == DescOrder(SubSeq(keys, 1, Len(keys) - 1))
             x == keys[Len(keys)]
             k == Cardinality({i \in DOMAIN before : keys[before[i]] >= x})
         IN SubSeq(before, 1, k) \o <<Len(keys)>> \o SubSeq(before, k + 1, Len(before))

RECURSIVE EntityTotals_Unknown(_, _)
\* Mutant of EntityTotals: a commission of no known partner is counted in a
\* category of its own.
EntityTotals_Unknown(cs, partner_lookup) ==
    IF Len(cs) = 0 THEN [entity_totals |-> <<>>, total_amount |-> 0]
    ELSE LET before == EntityTotals_Unknown(SubSeq(cs, 1, Len(cs) - 1), partner_lookup)
             commission == cs[Len(cs)]
             entity_type ==
                 IF commission.partner_id \in DOMAIN partner_lookup
                 THEN partner_lookup[commission.partner_id].entity_type
                 ELSE "Unknown"
             amount == to_float(commission.amount)
             started ==
                 IF \E i \in DOMAIN before.entity_totals :
                       before.entity_totals[i].entity_type = entity_type
                 THEN before.entity_totals
                 ELSE Append(before.entity_totals,
                             [entity_type |-> entity_type, total |-> 0])
         IN [entity_totals |->
                [i \in DOMAIN started |->
                    IF started[i].entity_type = entity_type
                    THEN [started[i] EXCEPT !.total = @ + amount]
                    ELSE started[i]],
             total_amount |-> before.total_amount + amount]

RECURSIVE EntityTotals(_, _)
\* entity_totals (in insertion order) and total_amount after the loop.
EntityTotals(cs, partner_lookup) ==
    IF Len(cs) = 0 THEN [entity_totals |-> <<>>, total_amount |-> 0]
    ELSE LET before == EntityTotals(SubSeq(cs, 1, Len(cs) - 1), partner_lookup)
             commission == cs[Len(cs)]
         IN IF commission.partner_id \notin DOMAIN partner_lookup THEN before
            ELSE LET entity_type == partner_lookup[commission.partner_id].entity_type
                     amount == to_float(commission.amount)
                     started ==
                         IF \E i \in DOMAIN before.entity_totals :
                               before.entity_totals[i].entity_type = entity_type
                         THEN before.entity_totals
                         ELSE Append(before.entity_totals,
                                     [entity_type |-> entity_type, total |-> 0])
                 IN [entity_totals |->
                        [i \in DOMAIN started |->
                            IF started[i].entity_type = entity_type
                            THEN [started[i] EXCEPT !.total = @ + amount]
                            ELSE started[i]],
                     total_amount |-> before.total_amount + amount]

\* Mutant of get_entity_performance_by_financial_year: the percentages are
\* taken of the total of all the year's commissions.
get_entity_performance_by_financial_year_OfAll(st, ps, financial_year) ==
    IF ~MatchesFYLabel(financial_year) THEN RRaise("NameError")
    ELSE LET found == get_commissions_by_financial_year(st, financial_year)
         IN IF found.kind = "raise" THEN RRaise("NameError")
            ELSE LET agg == EntityTotals(found.rows, PartnerMap(ps))
                     total_amount == SumFloats(found.rows)
                 IN RRows([i \in DOMAIN agg.entity_totals |->
                             [entity_id |-> <<DigitChars[i + 1]>>,
                              entity_name |-> agg.entity_totals[i].entity_type,
                              total |-> agg.entity_totals[i].total,
                              percentage |->
                                  IF total_amount > 0
                                  THEN Frac(agg.entity_totals[i].total * 100,
                                            total_amount)
                                  ELSE Frac(0, 1)]])

\* DashboardService.get_entity_performance_by_financial_year
get_entity_performance_by_financial_year(st, ps, financial_year) ==
    IF ~MatchesFYLabel(financial_year) THEN RRaise("NameError")
    ELSE LET found == get_commissions_by_financial_year(st, financial_year)
         IN IF found.kind = "raise" THEN RRaise("NameError")
            ELSE LET agg == EntityTotals(found.rows, PartnerMap(ps))
                 IN RRows([i \in DOMAIN agg.entity_totals |->
                             [entity_id |-> <<DigitChars[i + 1]>>,
                              entity_name |-> agg.entity_totals[i].entity_type,
                              total |-> agg.entity_totals[i].total,
                              percentage |->
                                  IF agg.total_amount > 0
                                  THEN Frac(agg.entity_totals[i].total * 100,
                                            agg.total_amount)
                                  ELSE Frac(0, 1)]])

\* SupabaseCommissionRepository.get_by_partner_id
get_by_partner_id(st, partner_id) ==
    OrderByMonthDesc(Filter(st, [i \in DOMAIN st |-> st[i].partner_id = partner_id]))

\* DashboardService.get_partner_performance_summary
get_partner_performance_summary(st, ps) ==
    LET result == [i \in DOMAIN ps |->
                      LET found == get_by_partner_id(st, ps[i].id)
                      IN [partner_id |-> ps[i].id,
                          partner_name |-> ps[i].name,
                          entity_type |-> ps[i].entity_type,
                          total_commission |-> SumFloats(found),
                          commission_count |-> Len(found)]]
        order == DescOrder([i \in DOMAIN result |-> result[i].total_commission])
    IN RRows([i \in DOMAIN order |-> result[order[i]]])

RECURSIVE TrendData(_)
\* monthly_data of get_commission_trends after the loop, as the list of its
\* values in insertion order.
TrendData(cs) ==
    IF Len(cs) = 0 THEN <<>>
    ELSE LET before == TrendData(SubSeq(cs, 1, Len(cs) - 1))
             commission == cs[Len(cs)]
             month == get_month_name(commission)
             year == get_year(commission)
             started ==
                 IF \E i \in DOMAIN before :
                       before[i].month = month /\ before[i].year = year
                 THEN before
                 ELSE Append(before, [month |-> month, year |-> year,
                                      total |-> 0, count |-> 0])
         IN [i \in DOMAIN started |->
                IF started[i].month = month /\ started[i].year = year
                THEN [started[i] EXCEPT !.total = @ + to_float(commission.amount),
                                        !.count = @ + 1]
                ELSE started[i]]

\* Mutant of get_commission_trends: the oldest months come first.
get_commission_trends_Oldest(st, months) ==
    LET result == TrendData(st)
        order == DescOrder([i \in DOMAIN result |->
                               0 - (result[i].year * 12 + MonthNumber(result[i].month))])
        sorted == [i \in DOMAIN order |-> result[order[i]]]
    IN RRows(SubSeq(sorted, 1,
                    IF months >= 0 THEN Min(months, Len(sorted))
                    ELSE Len(sorted) + months))

\* DashboardService.get_commission_trends; result[:months] is the first
\* min(months, len) rows for months >= 0 and drops the last -months otherwise.
get_commission_trends(st, months) ==
    LET result == TrendData(st)
        order == DescOrder([i \in DOMAIN result |->
                               result[i].year * 12 + MonthNumber(result[i].month)])
        sorted == [i \in DOMAIN order |-> result[order[i]]]
    IN RRows(SubSeq(sorted, 1,
                    IF months >= 0 THEN Min(months, Len(sorted))
                    ELSE Len(sorted) + months))

\* DashboardService.get_available_financial_years
get_available_financial_years(st) ==
    LET financial_years ==
            {to_string(st[i].financial_year, "short").s : i \in DOMAIN st}
        ascending == SortedKeys(financial_years)
    IN RRows([i \in DOMAIN ascending |-> ascending[Len(ascending) + 1 - i]])

\* The latest created_at of a partner's commissions, None when it has none.
LastCommissionDate(cs, partner_id) ==
    LET times == {cs[i].created_at : i \in {j \in DOMAIN cs : cs[j].partner_id = partner_id}}
    IN IF times = {} THEN None
       ELSE CHOOSE t \in times : \A u \in times : u <= t

\* AnalyticsMapper.create_partner_performance_data
create_partner_performance_data(ps, cs) ==
    LET partner_performance ==
            [i \in DOMAIN ps |->
                LET own == Filter(cs, [j \in DOMAIN cs |-> cs[j].partner_id = ps[i].id])
                IN [partner |-> ps[i],
                    total_commissions |-> SumFloats(own),
                    commission_count |-> Len(own),
                    last_commission_date |-> LastCommissionDate(cs, ps[i].id)]]
        order == DescOrder([i \in DOMAIN partner_performance |->
                               partner_performance[i].total_commissions])
    IN [rank \in DOMAIN order |->
           LET data == partner_performance[order[rank]]
           IN [partner_id |-> data.partner.id,
               partner_name |-> data.partner.name,
               entity_type |-> data.partner.entity_type,
               total_commissions |-> data.total_commissions,
               commission_count |-> data.commission_count,
               average_commission |->
                   IF data.commission_count > 0
                   THEN Frac(data.total_commissions, data.commission_count)
                   ELSE Frac(0, 1),
               last_commission_date |-> data.last_commission_date,
               performance_rank |-> rank]]

-----------------------------------------------------------------------------
(* Inputs of the reports                                                   *)

P3 == <<"P", "3">>

\* Partner P3 is in no partner table.
RepPartnerLists ==
    { <<>>,
      <<[id |-> P1, name |-> "Alpha", entity_type |-> "Mutual Funds"],
        [id |-> P2, name |-> "Beta", entity_type |-> "Life Insurance"]>>,
      <<[id |-> P1, name |-> "Alpha", entity_type |-> "Mutual Funds"],
        [id |-> P2, name |-> "Beta", entity_type |-> "Mutual Funds"]>> }

\* Three financial years: two one after the other, and one a century before
\* the later of them.
RepDates ==
    { Date(EpochYear - 100, 5, 1), Date(EpochYear - 1, 12, 1), Date(EpochYear, 5, 1) }

RepItems ==
    {<<P1, 50000>>, <<P2, 100000>>, <<P3, 50000>>} \X RepDates

RepCommissionLists ==
    UNION {
      {[i \in 1..n |-> StoredCommission(i, t[i][1][1], t[i][1][2], t[i][2])] :
          t \in [1..n -> RepItems]} : n \in 0..MaxCommissions}

RepLabels ==
    { FYLabel(EpochYear - 1), FYLabel(EpochYear),
      TwoDigits(EpochYear % 100) \o <<"-">> \o TwoDigits((EpochYear + 1) % 100) }

MaxMonths == 3

-----------------------------------------------------------------------------
(* Specification SpecReports: the repositories hold some commissions and   *)
(* some partners, and one report is asked for.                             *)

InitReports ==
    /\ SvcIdle
    /\ CtrIdle
    /\ FYIdle
    /\ MoneyIdle
    /\ EntIdle
    /\ MapIdle
    /\ store \in RepCommissionLists
    /\ \A i, j \in DOMAIN store :
          i < j => DateLE(store[i].transaction_date, store[j].transaction_date)
    /\ dashNow = NoDate
    /\ dashOp = "none"
    /\ dashArg = <<>>
    /\ dashRet = NoDRet
    /\ partnerStore \in RepPartnerLists
    /\ repOp = "none"
    /\ repArg = <<>>
    /\ repN = 0
    /\ repRet = NoRRet

GetEntityPerformanceByFinancialYear ==
    /\ repOp = "none"
    /\ \E financial_year \in RepLabels :
          /\ repArg' = financial_year
          /\ repRet' = get_entity_performance_by_financial_year(
                           store, partnerStore, financial_year)
    /\ repOp' = "get_entity_performance_by_financial_year"
    /\ UNCHANGED <<store, partnerStore, repN, nonRepVars>>

GetPartnerPerformanceSummary ==
    /\ repOp = "none"
    /\ repRet' = get_partner_performance_summary(store, partnerStore)
    /\ repOp' = "get_partner_performance_summary"
    /\ UNCHANGED <<store, partnerStore, repArg, repN, nonRepVars>>

CreatePartnerPerformanceData ==
    /\ repOp = "none"
    /\ repRet' = RRows(create_partner_performance_data(partnerStore, store))
    /\ repOp' = "create_partner_performance_data"
    /\ UNCHANGED <<store, partnerStore, repArg, repN, nonRepVars>>

CreatePartnerCommissionData ==
    /\ repOp = "none"
    /\ repRet' = RRows(create_partner_commission_data(store, partnerStore))
    /\ repOp' = "create_partner_commission_data"
    /\ UNCHANGED <<store, partnerStore, repArg, repN, nonRepVars>>

GetCommissionTrends ==
    /\ repOp = "none"
    /\ \E months \in 0..MaxMonths :
          /\ repN' = months
          /\ repRet' = get_commission_trends(store, months)
    /\ repOp' = "get_commission_trends"
    /\ UNCHANGED <<store, partnerStore, repArg, nonRepVars>>

GetAvailableFinancialYears ==
    /\ repOp = "none"
    /\ repRet' = get_available_financial_years(store)
    /\ repOp' = "get_available_financial_years"
    /\ UNCHANGED <<store, partnerStore, repArg, repN, nonRepVars>>

NextReports ==
    \/ GetEntityPerformanceByFinancialYear
    \/ GetPartnerPerformanceSummary
    \/ CreatePartnerPerformanceData
    \/ CreatePartnerCommissionData
    \/ GetCommissionTrends
    \/ GetAvailableFinancialYears

SpecReports == InitReports /\ [][NextReports]_vars

-----------------------------------------------------------------------------
(* Properties of the reports (checked under SpecReports)                   *)

\* The stored commissions dated inside the financial year that the label
\* asked for names.
RepInYear ==
    {i \in DOMAIN store : InWindow(from_string(repArg).fy, store[i].transaction_date)}

\* The stored commissions whose partner is in the partner table.
Matched ==
    {i \in DOMAIN store :
        \E k \in DOMAIN partnerStore : partnerStore[k].id = store[i].partner_id}

\* The entity type of the partner of a matched commission.
TypeOf(i) ==
    partnerStore[CHOOSE k \in DOMAIN partnerStore :
                    partnerStore[k].id = store[i].partner_id].entity_type

EntityDone ==
    /\ repOp = "get_entity_performance_by_financial_year"
    /\ repRet.kind = "rows"

\* The percentages of the rows add up to 100.
PercentagesSumTo100 ==
    \E den \in {repRet.rows[i].percentage.den : i \in DOMAIN repRet.rows} :
       /\ \A i \in DOMAIN repRet.rows : repRet.rows[i].percentage.den = den
       /\ SumOver([i \in DOMAIN repRet.rows |-> repRet.rows[i].percentage.num],
                  DOMAIN repRet.rows) = 100 * den

\* C21 as stated: for a non-empty commission set of a financial year, the
\* percentages of the entity-type breakdown of
\* get_entity_performance_by_financial_year sum to 100.
C21_CategoryPercentagesSumTo100 ==
    (EntityDone /\ RepInYear # {}) => PercentagesSumTo100

\* C21 amended: when at least one commission of the financial year belongs
\* to a partner of the partner table, the percentages of the entity-type
\* breakdown sum to 100.
C21_CategoryPercentagesOfMatchedSumTo100 ==
    (EntityDone /\ RepInYear \cap Matched # {}) => PercentagesSumTo100

\* Two entity types are reported, and a commission of the year has no partner.
C21_Witness ==
    /\ EntityDone
    /\ Len(repRet.rows) = 2
    /\ RepInYear \ Matched # {}

\* C22: in the entity-type breakdown a commission whose partner_id matches no
\* partner contributes to no category total: there is one row per entity type
\* of a matched commission of the year, and its total is the sum of the
\* amounts of the commissions of partners of that type; the unmatched
\* commission is still part of the totals computed over all commissions
\* (currentYearTotal and get_total_commissions).
C22_UnmatchedLeftOutOfCategories ==
    EntityDone =>
       /\ {repRet.rows[i].entity_name : i \in DOMAIN repRet.rows}
             = {TypeOf(i) : i \in RepInYear \cap Matched}
       /\ \A i, j \in DOMAIN repRet.rows :
             repRet.rows[i].entity_name = repRet.rows[j].entity_name => i = j
       /\ \A r \in DOMAIN repRet.rows :
             repRet.rows[r].total =
                SumOver(StoreCents,
                        {i \in RepInYear \cap Matched :
                            TypeOf(i) = repRet.rows[r].entity_name})
       /\ calculate_financial_year_metrics(store, repArg).metrics.currentYearTotal
             = SumOver(StoreCents, RepInYear)
       /\ get_total_commissions(store).total = SumOver(StoreCents, DOMAIN store)

\* A category is reported and a commission of the year has no partner.
C22_Witness ==
    /\ EntityDone
    /\ Len(repRet.rows) = 1
    /\ RepInYear \ Matched # {}
    /\ Cardinality(RepInYear) = 3

RankedOps ==
    { "get_partner_performance_summary", "create_partner_performance_data",
      "create_partner_commission_data" }

\* The total of a row of a partner ranking.
RowTotal(row) ==
    IF repOp = "get_partner_performance_summary" THEN row.total_commission
    ELSE IF repOp = "create_partner_performance_data" THEN row.total_commissions
    ELSE row.total_amount

\* The partners a ranking is about: those of the partner table, or for
\* create_partner_commission_data those the commissions name.
RankedPartners ==
    IF repOp = "create_partner_commission_data"
    THEN {store[i].partner_id : i \in DOMAIN store}
    ELSE {partnerStore[k].id : k \in DOMAIN partnerStore}

\* The place of a partner in the order in which the groups were made: the
\* order of the partner table, or of first appearance among the commissions.
GroupingPosition(partner_id) ==
    IF repOp = "create_partner_commission_data"
    THEN CHOOSE i \in DOMAIN store :
            /\ store[i].partner_id = partner_id
            /\ \A j \in DOMAIN store : store[j].partner_id = partner_id => i <= j
    ELSE CHOOSE k \in DOMAIN partnerStore : partnerStore[k].id = partner_id

\* C23: the partner totals are returned in descending order of total, one row
\* per partner; partners with equal totals keep the order in which their
\* groups were made (stable sort); the ranks of
\* create_partner_performance_data are exactly 1..N in that order.
C23_PartnersRankedByTotal ==
    (repOp \in RankedOps /\ repRet.kind = "rows") =>
       LET rows == repRet.rows
       IN /\ Len(rows) = Cardinality(RankedPartners)
          /\ {rows[i].partner_id : i \in DOMAIN rows} = RankedPartners
          /\ \A i \in DOMAIN rows :
                RowTotal(rows[i]) =
                   SumOver(StoreCents,
                           {c \in DOMAIN store : store[c].partner_id = rows[i].partner_id})
          /\ \A i, j \in DOMAIN rows :
                i < j =>
                   /\ RowTotal(rows[i]) >= RowTotal(rows[j])
                   /\ RowTotal(rows[i]) = RowTotal(rows[j]) =>
                         GroupingPosition(rows[i].partner_id)
                            < GroupingPosition(rows[j].partner_id)
          /\ repOp = "create_partner_performance_data" =>
                \A i \in DOMAIN rows : rows[i].performance_rank = i

\* Two partners with the same positive total are ranked 1 and 2.
C23_Witness ==
    /\ repOp = "create_partner_performance_data"
    /\ Len(repRet.rows) = 2
    /\ repRet.rows[1].total_commissions = repRet.rows[2].total_commissions
    /\ repRet.rows[1].total_commissions > 0
    /\ repRet.rows[2].performance_rank = 2

\* The calendar months in which a stored commission is dated.
StoreMonths ==
    {<<store[i].transaction_date.year, store[i].transaction_date.month>> :
        i \in DOMAIN store}

\* The chronological key of the month of a trend row.
TrendKey(row) == row.year * 12 + MonthNumber(row.month)

\* C24: get_commission_trends(N), N >= 0, returns min(N, number of distinct
\* months) rows, each the total and count of all commissions of one calendar
\* month whatever their financial year, the rows being the latest months,
\* ordered from the most recent to the oldest.
C24_CommissionTrends ==
    (repOp = "get_commission_trends" /\ repRet.kind = "rows") =>
       LET rows == repRet.rows
       IN /\ Len(rows) = Min(repN, Cardinality(StoreMonths))
          /\ \A i, j \in DOMAIN rows : i < j => TrendKey(rows[i]) > TrendKey(rows[j])
          /\ \A i \in DOMAIN rows :
                LET y == rows[i].year
                    m == MonthNumber(rows[i].month)
                IN /\ <<y, m>> \in StoreMonths
                   /\ rows[i].total = SumOver(StoreCents, InMonth(y, m))
                   /\ rows[i].count = Cardinality(InMonth(y, m))
                   /\ \A ym \in StoreMonths :
                         ym[1] * 12 + ym[2] > TrendKey(rows[i]) =>
                            \E k \in DOMAIN rows :
                               rows[k].year = ym[1] /\ MonthNumber(rows[k].month) = ym[2]

\* Two of three months are asked for; they lie in different financial years.
C24_Witness ==
    /\ repOp = "get_commission_trends"
    /\ repN = 2
    /\ Cardinality(StoreMonths) = 3
    /\ Len(repRet.rows) = 2
    /\ repRet.rows[1].year = EpochYear
    /\ repRet.rows[2].year = EpochYear - 1

\* The financial years in which a stored commission lies.
StoreYears == {store[i].financial_year : i \in DOMAIN store}

\* C28: get_available_financial_years returns one distinct label per
\* financial year that has a commission, the most recent financial year
\* first: labels of different years differ and the order of the labels is the
\* reverse chronological order of the years.
C28_AvailableYearsDistinctAndChronological ==
    (repOp = "get_available_financial_years" /\ repRet.kind = "rows") =>
       /\ Len(repRet.rows) = Cardinality(StoreYears)
       /\ \E years \in [DOMAIN repRet.rows -> StoreYears] :
             /\ \A i, j \in DOMAIN repRet.rows :
                   i < j => years[i].start_year > years[j].start_year
             /\ \A i \in DOMAIN repRet.rows :
                   repRet.rows[i] = to_string(years[i], "short").s

-----------------------------------------------------------------------------
(* PartnerService.delete_partner and CommissionService.create_commission   *)
(* running side by side.  Every await of a repository method is one step   *)
(* on the tables; other calls may take steps between two awaits of a call. *)

MaxCalls == 2

CallIds == 1..MaxCalls

PartnerIds == {P1, P2}

NoCall == [op |-> "none", partner_id |-> <<>>, pc |-> "idle", kind |-> "none", err |-> ""]

\* The call has ended by raising e, or by returning.
Raised(call, e) == [call EXCEPT !.pc = "done", !.kind = "raise", !.err = e]

Returned(call) == [call EXCEPT !.pc = "done", !.kind = "return"]

\* partner_repo.get_by_id(partner_id) is not None
PartnerExists(partner_id) == partner_id \in partnerTable

\* commission_repo.get_by_partner_id(partner_id) is not empty
HasCommissions(partner_id) ==
    \E i \in DOMAIN commissionTable : commissionTable[i].partner_id = partner_id

InitServices ==
    /\ RepIdle
    /\ CtrIdle
    /\ DashIdle
    /\ MapIdle
    /\ FYIdle
    /\ MoneyIdle
    /\ EntIdle
    /\ partnerTable = PartnerIds
    /\ commissionTable \in {<<>>, <<[id |-> 0, partner_id |-> P2]>>}
    /\ calls = [c \in CallIds |-> NoCall]

\* create_commission is called and awaits partner_repo.get_by_id.
CreateCommissionGetPartner(c) ==
    /\ calls[c].pc = "idle"
    /\ \E partner_id \in PartnerIds :
          LET call == [NoCall EXCEPT !.op = "create_commission",
                                     !.partner_id = partner_id]
          IN calls' = [calls EXCEPT ![c] =
                          IF ~PartnerExists(partner_id)
                          THEN Raised(call, "PartnerNotFound")
                          ELSE [call EXCEPT !.pc = "create"]]
    /\ UNCHANGED <<partnerTable, commissionTable, nonSvcVars>>

\* create_commission awaits commission_repo.create.
CreateCommissionCreate(c) ==
    /\ calls[c].op = "create_commission" /\ calls[c].pc = "create"
    /\ commissionTable' =
          Append(commissionTable, [id |-> c, partner_id |-> calls[c].partner_id])
    /\ calls' = [calls EXCEPT ![c] = Returned(calls[c])]
    /\ UNCHANGED <<partnerTable, nonSvcVars>>

\* delete_partner is called and awaits partner_repo.get_by_id.
DeletePartnerGetPartner(c) ==
    /\ calls[c].pc = "idle"
    /\ \E partner_id \in PartnerIds :
          LET call == [NoCall EXCEPT !.op = "delete_partner",
                                     !.partner_id = partner_id]
          IN calls' = [calls EXCEPT ![c] =
                          IF ~PartnerExists(partner_id)
                          THEN Raised(call, "PartnerNotFound")
                          ELSE [call EXCEPT !.pc = "get_by_partner_id"]]
    /\ UNCHANGED <<partnerTable, commissionTable, nonSvcVars>>

\* delete_partner awaits commission_repo.get_by_partner_id.
DeletePartnerGetCommissions(c) ==
    /\ calls[c].op = "delete_partner" /\ calls[c].pc = "get_by_partner_id"
    /\ calls' = [calls EXCEPT ![c] =
                    IF HasCommissions(calls[c].partner_id)
                    THEN Raised(calls[c], "PartnerHasCommissions")
                    ELSE [calls[c] EXCEPT !.pc = "delete"]]
    /\ UNCHANGED <<partnerTable, commissionTable, nonSvcVars>>

\* delete_partner awaits partner_repo.delete.
DeletePartnerDelete(c) ==
    /\ calls[c].op = "delete_partner" /\ calls[c].pc = "delete"
    /\ partnerTable' = partnerTable \ {calls[c].partner_id}
    /\ calls' = [calls EXCEPT ![c] = Returned(calls[c])]
    /\ UNCHANGED <<commissionTable, nonSvcVars>>

NextServices ==
    \E c \in CallIds :
       \/ CreateCommissionGetPartner(c)
       \/ CreateCommissionCreate(c)
       \/ DeletePartnerGetPartner(c)
       \/ DeletePartnerGetCommissions(c)
       \/ DeletePartnerDelete(c)

SpecServices == InitServices /\ [][NextServices]_vars

\* C29: under any interleaving of delete_partner and create_commission calls
\* no stored commission references a partner that has been deleted.
C29_NoCommissionOfDeletedPartner ==
    \A i \in DOMAIN commissionTable :
        commissionTable[i].partner_id \in partnerTable

-----------------------------------------------------------------------------
(* Container                                                               *)

SINGLETON == "singleton"

TRANSIENT == "transient"

Lifetimes == {SINGLETON, TRANSIENT}

\* The objects created are told apart by a serial number.
MaxInstances == 3

Interfaces == {"IPartnerService", "ICommissionService"}

\* Classes whose constructors take no dependency.
Implementations == {"PartnerService", "MockPartnerService"}

NoFactory == [set |-> FALSE, cls |-> "", inst |-> NoInstance]

\* A factory that constructs the class, and `lambda: instance`.
FactoryOf(cls) == [set |-> TRUE, cls |-> cls, inst |-> NoInstance]

LambdaInstance(instance) == [set |-> TRUE, cls |-> instance.cls, inst |-> instance]

ServiceDescriptor(implementation, factory, lifetime) ==
    [implementation |-> implementation, factory |-> factory, lifetime |-> lifetime]

\* d[key] = value
DictSet(dict, key, value) ==
    [k \in DOMAIN dict \cup {key} |-> IF k = key THEN value ELSE dict[k]]

CRaise(e) == [kind |-> "raise", err |-> e, inst |-> NoInstance]

CReturn(instance) == [kind |-> "instance", err |-> "", inst |-> instance]

\* Container._create_instance; a constructed object takes the serial given.
create_instance(descriptor, serial) ==
    IF descriptor.factory.set
    THEN IF descriptor.factory.inst # NoInstance
         THEN descriptor.factory.inst
         ELSE [cls |-> descriptor.factory.cls, serial |-> serial]
    ELSE [cls |-> descriptor.implementation, serial |-> serial]

\* Whether _create_instance constructs an object.
Constructs(descriptor) ==
    ~(descriptor.factory.set /\ descriptor.factory.inst # NoInstance)

\* Container.get: the outcome, and _singletons and the number of objects
\* after the call.
get(interface) ==
    IF interface \notin DOMAIN services
    THEN [ret |-> CRaise("ValueError"), singletons |-> singletons, made |-> made]
    ELSE LET descriptor == services[interface]
         IN IF descriptor.lifetime = SINGLETON /\ interface \in DOMAIN singletons
            THEN [ret |-> CReturn(singletons[interface]),
                  singletons |-> singletons, made |-> made]
            ELSE LET instance == create_instance(descriptor, made + 1)
                 IN [ret |-> CReturn(instance),
                     singletons |->
                         IF descriptor.lifetime = SINGLETON
                         THEN DictSet(singletons, interface, instance)
                         ELSE singletons,
                     made |-> IF Constructs(descriptor) THEN made + 1 ELSE made]

-----------------------------------------------------------------------------
(* Specification SpecContainer: registrations, lookups and clear on one    *)
(* Container, in any order.                                                *)

InitContainer ==
    /\ RepIdle
    /\ SvcIdle
    /\ DashIdle
    /\ MapIdle
    /\ FYIdle
    /\ MoneyIdle
    /\ EntIdle
    /\ services = <<>>
    /\ singletons = <<>>
    /\ made = 0
    /\ ctrOp = "none"
    /\ ctrArg = ""
    /\ ctrRet = NoCRet

Registered(op, interface, descriptor) ==
    /\ services' = DictSet(services, interface, descriptor)
    /\ ctrOp' = op
    /\ ctrArg' = interface
    /\ ctrRet' = NoCRet

RegisterSingleton ==
    /\ \E interface \in Interfaces, implementation \in Implementations :
          Registered("register_singleton", interface,
                     ServiceDescriptor(implementation, NoFactory, SINGLETON))
    /\ UNCHANGED <<singletons, made, nonCtrVars>>

RegisterTransient ==
    /\ \E interface \in Interfaces, implementation \in Implementations :
          Registered("register_transient", interface,
                     ServiceDescriptor(implementation, NoFactory, TRANSIENT))
    /\ UNCHANGED <<singletons, made, nonCtrVars>>

RegisterFactory ==
    /\ \E interface \in Interfaces, cls \in Implementations, lifetime \in Lifetimes :
          Registered("register_factory", interface,
                     ServiceDescriptor("", FactoryOf(cls), lifetime))
    /\ UNCHANGED <<singletons, made, nonCtrVars>>

\* The instance registered is an object the caller has just constructed.
RegisterInstance ==
    /\ made < MaxInstances
    /\ \E interface \in Interfaces, cls \in Implementations :
          LET instance == [cls |-> cls, serial |-> made + 1]
          IN /\ Registered("register_instance", interface,
                           ServiceDescriptor("", LambdaInstance(instance), SINGLETON))
             /\ singletons' = DictSet(singletons, interface, instance)
    /\ made' = made + 1
    /\ UNCHANGED nonCtrVars

Get ==
    /\ \E interface \in Interfaces :
          LET result == get(interface)
          IN /\ result.made <= MaxInstances
             /\ ctrRet' = result.ret
             /\ singletons' = result.singletons
             /\ made' = result.made
             /\ ctrArg' = interface
    /\ ctrOp' = "get"
    /\ UNCHANGED <<services, nonCtrVars>>

Clear ==
    /\ services' = <<>>
    /\ singletons' = <<>>
    /\ ctrOp' = "clear"
    /\ ctrArg' = ""
    /\ ctrRet' = NoCRet
    /\ UNCHANGED <<made, nonCtrVars>>

NextContainer ==
    \/ RegisterSingleton
    \/ RegisterTransient
    \/ RegisterFactory
    \/ RegisterInstance
    \/ Get
    \/ Clear

SpecContainer == InitContainer /\ [][NextContainer]_vars

\* The instance is one that the registration described can produce.
ProducedBy(descriptor, instance) ==
    IF descriptor.factory.set
    THEN IF descriptor.factory.inst # NoInstance
         THEN instance = descriptor.factory.inst
         ELSE instance.cls = descriptor.factory.cls
    ELSE instance.cls = descriptor.implementation

\* C30: after any sequence of registrations, lookups and clear, get(interface)
\* returns an instance produced by the most recent registration of the
\* interface, never one cached under an earlier, replaced registration.
C30_GetReturnsCurrentRegistration ==
    (ctrOp = "get" /\ ctrRet.kind = "instance") =>
        ProducedBy(services[ctrArg], ctrRet.inst)

====
